---- MODULE Spec2Model ----
(***************************************************************************)
(* Model of the electronics demo backend                                   *)
(* (src/electronics_server_python/main.py): the category filter, the       *)
(* relevance ranker, the cross-sell recommender, the solution bundle       *)
(* builder, the minor-unit conversion and the tool-call handler.           *)
(*                                                                         *)
(* Text is modelled as a sequence of character codes (ASCII), so that      *)
(* lower-casing, stripping, splitting, normalisation, substring search and *)
(* lexicographic comparison are computed as Python computes them.  Each    *)
(* literal carries its text in a comment.                                  *)
(***************************************************************************)
EXTENDS Integers, Sequences, FiniteSets, TLC

VARIABLES
    fpc, fProducts, fCategory, fResult, fAgain,        \* category filter
    rpc, rProducts, rCriteria, rResult, rScores,       \* relevance ranker
    rSteps,
    cpc, cCart, cCatalog, cMax, cResult, cTrace,       \* cross-sell recommender
    bpc, bProducts, bPref, bSlots, bResult,            \* solution bundle builder
    mpc, mAmount, mCurrency, mResult,                  \* minor-unit conversion
    tCalls, tRequest, tResult, tCatalogLog,            \* tool handler: the last call
    tPaymentLog, tStaticLog, tStripeKey,
    tSessions, tIdem, tPayments,                       \* tool handler: the stores
    tBefore,                                           \* the stores and the call before the last call
    tTasks,                                            \* tool requests in flight and handled
    dpc, dToken, dCategory, dAttempt, dConnects,       \* catalog connection and query
    dDelays, dErrors, dLastErr, dConn, dExc,
    dQuery, dProducts, dEscaped

filterVars == <<fpc, fProducts, fCategory, fResult, fAgain>>
rankVars == <<rpc, rProducts, rCriteria, rResult, rScores, rSteps>>
crossVars == <<cpc, cCart, cCatalog, cMax, cResult, cTrace>>
bundleVars == <<bpc, bProducts, bPref, bSlots, bResult>>
minorVars == <<mpc, mAmount, mCurrency, mResult>>
toolVars ==
    <<tCalls, tRequest, tResult, tCatalogLog, tPaymentLog, tStaticLog, tStripeKey,
      tSessions, tIdem, tPayments, tBefore, tTasks>>
duckVars ==
    <<dpc, dToken, dCategory, dAttempt, dConnects, dDelays, dErrors, dLastErr, dConn, dExc,
      dQuery, dProducts, dEscaped>>

\* An optional value is a sequence of length at most one: None is Python's
\* None (an absent field, dict.get of a missing key), Some(x) the value x.
None == <<>>

Some(x) == <<x>>

\* The result of a call: a value, or an exception raised
Ok(v) == [ok |-> TRUE, v |-> v, err |-> "none"]
Raised(e) == [ok |-> FALSE, v |-> 0, err |-> e]

\* The value of a call, or the default when it raised
ValueOr(out, default) == IF out.ok THEN out.v ELSE default

(***************************************************************************)
(* Python str operations on sequences of character codes.                  *)
(***************************************************************************)
\* Sequences over S of length 0..n.
SeqsUpTo(S, n) == UNION {[1..k -> S] : k \in 0..n}

\* str.lower() on one character
LowerChar(c) == IF c \in 65..90 THEN c + 32 ELSE c

\* str.lower()
Lower(s) == [i \in 1..Len(s) |-> LowerChar(s[i])]

\* str.upper()
Upper(s) == [i \in 1..Len(s) |-> IF s[i] \in 97..122 THEN s[i] - 32 ELSE s[i]]

\* str.isspace() on one character (also the class \s of re)
IsSpace(c) == c \in {9, 10, 11, 12, 13, 32}

\* the class \d of re
IsDigit(c) == c \in 48..57

\* the class [a-z0-9] of re
IsAlnumLower(c) == c \in 97..122 \/ c \in 48..57

\* The positions of the characters that are not white space
Inked(s) == {i \in 1..Len(s) : ~IsSpace(s[i])}

\* str.lstrip()
LStrip(s) ==
    IF Inked(s) = {} THEN <<>>
    ELSE SubSeq(s, CHOOSE i \in Inked(s) : \A j \in Inked(s) : i <= j, Len(s))

\* str.rstrip()
RStrip(s) ==
    IF Inked(s) = {} THEN <<>>
    ELSE SubSeq(s, 1, CHOOSE i \in Inked(s) : \A j \in Inked(s) : j <= i)

\* str.strip(); a string without white space at its ends is its own
Strip(s) ==
    IF s = <<>> THEN s
    ELSE IF ~IsSpace(s[1]) /\ ~IsSpace(s[Len(s)]) THEN s
    ELSE RStrip(LStrip(s))

\* needle in hay (substring test; the empty string is in every string)
Contains(hay, needle) ==
    \/ needle = <<>>
    \/ \E i \in 1..(Len(hay) - Len(needle) + 1) :
           hay[i] = needle[1] /\ SubSeq(hay, i, i + Len(needle) - 1) = needle

\* any(kw in text for kw in keywords)
AnyIn(keywords, text) == \E k \in 1..Len(keywords) : Contains(text, keywords[k])

\* x in list
InList(x, list) == \E k \in 1..Len(list) : list[k] = x

\* The places of the separator in s, with 0 before and Len(s) + 1 behind
Cuts(s, sep) == {0, Len(s) + 1} \cup {i \in 1..Len(s) : s[i] = sep}

\* The k-th smallest element of a set of numbers
Nth(S, k) == CHOOSE p \in S : Cardinality({q \in S : q < p}) = k - 1

\* str.split(sep) for a one-character separator
Split(s, sep) ==
    [k \in 1..(Cardinality(Cuts(s, sep)) - 1) |->
        SubSeq(s, Nth(Cuts(s, sep), k) + 1, Nth(Cuts(s, sep), k + 1) - 1)]

\* sep.join(parts)
RECURSIVE Join(_, _)
Join(parts, sep) ==
    IF parts = <<>> THEN <<>>
    ELSE IF Len(parts) = 1 THEN parts[1]
    ELSE parts[1] \o sep \o Join(Tail(parts), sep)

\* [f(x) for x in s]
MapSeq(s, F(_)) == [i \in 1..Len(s) |-> F(s[i])]

\* The places where two strings differ, up to the shorter length
Differences(a, b) ==
    {i \in 1..(IF Len(a) < Len(b) THEN Len(a) ELSE Len(b)) : a[i] # b[i]}

FirstOf(S) == CHOOSE i \in S : \A j \in S : i <= j

\* Lexicographic comparison of two strings (Python's < on str)
StrLess(a, b) ==
    IF Differences(a, b) = {} THEN Len(a) < Len(b)
    ELSE a[FirstOf(Differences(a, b))] < b[FirstOf(Differences(a, b))]

\* The character that re.sub leaves at place i: the character itself, a
\* space for the first of a run of other characters, nothing (0) for the rest
Squashed(s, i) ==
    IF IsAlnumLower(s[i]) THEN s[i]
    ELSE IF i = 1 \/ IsAlnumLower(s[i - 1]) THEN 32
    ELSE 0

\* re.sub(r"[^a-z0-9]+", " ", s): every maximal run of other characters
\* becomes one space
SquashNonAlnum(s) ==
    SelectSeq([i \in 1..Len(s) |-> Squashed(s, i)], LAMBDA c : c # 0)

_normalize_text(value) == Strip(SquashNonAlnum(Lower(value)))

\* Value of a run of decimal digits (int(match.group(1)))
RECURSIVE DigitsValue(_, _)
DigitsValue(s, acc) ==
    IF s = <<>> THEN acc ELSE DigitsValue(Tail(s), acc * 10 + (Head(s) - 48))

(***************************************************************************)
(* A product row of the catalog.  A category field is a list of strings, a *)
(* comma-separated string or absent.                                       *)
(***************************************************************************)
CatList(l) == [t |-> "list", v |-> l]
CatStr(s) == [t |-> "str", v |-> s]
CatNone == [t |-> "none", v |-> <<>>]

\* The name of a row whose name field holds None (NULL in the table): the
\* one-element sequence of a code that no character has
NullName == <<-1>>

Product(id, name, price, primary, cats, descr) ==
    [id |-> id, name |-> name, price |-> price, primaryCategories |-> primary,
     categories |-> cats, descrizione_prodotto |-> descr]

(***************************************************************************)
(* Category resolver: filter_products_by_category                          *)
(***************************************************************************)
\* CATEGORY_MAPPING, in insertion order: <<main category, tags>>
CATEGORY_MAPPING ==
    << [main |-> <<86, 105, 100, 101, 111, 32, 38, 32, 84, 86>> (* "Video & TV" *),
        tags |-> << <<116, 118>> (* "tv" *), <<116, 101, 108, 101, 118, 105, 115, 105, 111, 110, 115>> (* "televisions" *), <<116, 118, 32, 97, 99, 99, 101, 115, 115, 111, 114, 105, 101, 115>> (* "tv accessories" *), <<116, 118, 32, 109, 111, 117, 110, 116, 115>> (* "tv mounts" *),
                    <<112, 114, 111, 106, 101, 99, 116, 111, 114, 115>> (* "projectors" *), <<118, 105, 100, 101, 111, 32, 112, 114, 111, 106, 101, 99, 116, 111, 114, 115>> (* "video projectors" *), <<100, 118, 100, 32, 112, 108, 97, 121, 101, 114, 115>> (* "dvd players" *),
                    <<98, 108, 117, 45, 114, 97, 121, 32, 112, 108, 97, 121, 101, 114, 115>> (* "blu-ray players" *), <<98, 108, 117, 45, 114, 97, 121>> (* "blu-ray" *), <<118, 105, 100, 101, 111>> (* "video" *), <<104, 111, 109, 101, 32, 116, 104, 101, 97, 116, 101, 114>> (* "home theater" *) >>],
       [main |-> <<73, 110, 102, 111, 114, 109, 97, 116, 105, 99, 97>> (* "Informatica" *),
        tags |-> << <<99, 111, 109, 112, 117, 116, 101, 114, 115>> (* "computers" *), <<100, 101, 115, 107, 116, 111, 112, 32, 99, 111, 109, 112, 117, 116, 101, 114, 115>> (* "desktop computers" *), <<109, 111, 110, 105, 116, 111, 114, 115>> (* "monitors" *), <<116, 97, 98, 108, 101, 116, 115>> (* "tablets" *),
                    <<112, 114, 105, 110, 116, 101, 114, 115>> (* "printers" *), <<115, 99, 97, 110, 110, 101, 114, 115>> (* "scanners" *), <<99, 111, 109, 112, 117, 116, 101, 114, 32, 97, 99, 99, 101, 115, 115, 111, 114, 105, 101, 115>> (* "computer accessories" *),
                    <<112, 99, 32, 99, 111, 109, 112, 111, 110, 101, 110, 116, 115>> (* "pc components" *), <<105, 110, 112, 117, 116, 32, 100, 101, 118, 105, 99, 101, 115>> (* "input devices" *), <<107, 101, 121, 98, 111, 97, 114, 100, 115>> (* "keyboards" *), <<109, 105, 99, 101>> (* "mice" *),
                    <<108, 97, 112, 116, 111, 112, 115>> (* "laptops" *) >>],
       [main |-> <<65, 117, 100, 105, 111>> (* "Audio" *),
        tags |-> << <<97, 117, 100, 105, 111>> (* "audio" *), <<115, 112, 101, 97, 107, 101, 114, 115>> (* "speakers" *), <<119, 105, 114, 101, 108, 101, 115, 115, 32, 115, 112, 101, 97, 107, 101, 114, 115>> (* "wireless speakers" *),
                    <<98, 108, 117, 101, 116, 111, 111, 116, 104, 32, 115, 112, 101, 97, 107, 101, 114, 115>> (* "bluetooth speakers" *), <<104, 101, 97, 100, 112, 104, 111, 110, 101, 115>> (* "headphones" *), <<104, 111, 109, 101, 32, 97, 117, 100, 105, 111>> (* "home audio" *),
                    <<104, 111, 109, 101, 32, 116, 104, 101, 97, 116, 101, 114>> (* "home theater" *), <<104, 111, 109, 101, 32, 116, 104, 101, 97, 116, 101, 114, 32, 115, 121, 115, 116, 101, 109, 115>> (* "home theater systems" *), <<109, 105, 99, 114, 111, 112, 104, 111, 110, 101, 115>> (* "microphones" *),
                    <<97, 109, 112, 108, 105, 102, 105, 101, 114, 115>> (* "amplifiers" *), <<115, 116, 101, 114, 101, 111, 115>> (* "stereos" *), <<112, 111, 114, 116, 97, 98, 108, 101, 32, 97, 117, 100, 105, 111>> (* "portable audio" *) >>] >>

\* the requested categories that are filtered as TV-class
TvClassCategories == << <<116, 118>> (* "tv" *), <<116, 101, 108, 101, 118, 105, 115, 105, 111, 110, 115>> (* "televisions" *) >>

\* the requested tags for which "home theater" is removed from the audio tags
AudioSpecificCategories ==
    << <<115, 112, 101, 97, 107, 101, 114, 115>> (* "speakers" *), <<119, 105, 114, 101, 108, 101, 115, 115, 32, 115, 112, 101, 97, 107, 101, 114, 115>> (* "wireless speakers" *), <<98, 108, 117, 101, 116, 111, 111, 116, 104, 32, 115, 112, 101, 97, 107, 101, 114, 115>> (* "bluetooth speakers" *), <<104, 101, 97, 100, 112, 104, 111, 110, 101, 115>> (* "headphones" *),
       <<97, 117, 100, 105, 111>> (* "audio" *) >>

AmbiguousTags == << <<104, 111, 109, 101, 32, 116, 104, 101, 97, 116, 101, 114>> (* "home theater" *), <<104, 111, 109, 101, 32, 116, 104, 101, 97, 116, 101, 114, 32, 115, 121, 115, 116, 101, 109, 115>> (* "home theater systems" *) >>

FilterVideoTags ==
    << <<116, 118>> (* "tv" *), <<116, 101, 108, 101, 118, 105, 115, 105, 111, 110, 115>> (* "televisions" *), <<116, 101, 108, 101, 118, 105, 115, 105, 111, 110>> (* "television" *), <<112, 114, 111, 106, 101, 99, 116, 111, 114>> (* "projector" *), <<118, 105, 100, 101, 111>> (* "video" *), <<100, 118, 100>> (* "dvd" *),
       <<98, 108, 117, 45, 114, 97, 121>> (* "blu-ray" *), <<98, 108, 117, 32, 114, 97, 121>> (* "blu ray" *) >>

FilterAudioTags ==
    << <<115, 112, 101, 97, 107, 101, 114>> (* "speaker" *), <<104, 101, 97, 100, 112, 104, 111, 110, 101>> (* "headphone" *), <<109, 105, 99, 114, 111, 112, 104, 111, 110, 101>> (* "microphone" *), <<97, 109, 112, 108, 105, 102, 105, 101, 114>> (* "amplifier" *), <<115, 116, 101, 114, 101, 111>> (* "stereo" *),
       <<112, 111, 114, 116, 97, 98, 108, 101, 32, 97, 117, 100, 105, 111>> (* "portable audio" *) >>

ExplicitVideoTags ==
    << <<116, 118>> (* "tv" *), <<116, 101, 108, 101, 118, 105, 115, 105, 111, 110, 115>> (* "televisions" *), <<116, 101, 108, 101, 118, 105, 115, 105, 111, 110>> (* "television" *), <<112, 114, 111, 106, 101, 99, 116, 111, 114>> (* "projector" *), <<118, 105, 100, 101, 111>> (* "video" *) >>

HomeTheater == <<104, 111, 109, 101, 32, 116, 104, 101, 97, 116, 101, 114>> (* "home theater" *)

LowerStripAll(tags) == [i \in 1..Len(tags) |-> Strip(Lower(tags[i]))]

\* The tags of a mapping entry that the requested category expands to
ExpandTags(entry, category_lower) ==
    LET tags == entry.tags
        unamb == SelectSeq(tags, LAMBDA t : ~InList(Lower(t), AmbiguousTags))
        narrowed == LowerStripAll(unamb)
    IN  IF category_lower = Lower(entry.main) THEN LowerStripAll(tags)
        ELSE IF InList(category_lower, TvClassCategories)
                \/ InList(category_lower, AudioSpecificCategories)
             THEN IF InList(category_lower, narrowed) THEN narrowed
                  ELSE Append(narrowed, category_lower)
        ELSE LowerStripAll(tags)

\* Does the mapping entry answer for the requested category (name or tag)?
EntryMatches(entry, category_lower) ==
    \/ category_lower = Lower(entry.main)
    \/ InList(category_lower, [i \in 1..Len(entry.tags) |-> Lower(entry.tags[i])])

\* The search tags of a requested category: the first mapping entry that
\* matches decides; without one the category itself is the only tag.
SearchTags(category_lower) ==
    LET hits == {k \in 1..Len(CATEGORY_MAPPING) :
                    EntryMatches(CATEGORY_MAPPING[k], category_lower)}
        tags == IF hits = {} THEN <<>>
                ELSE LET k == CHOOSE k \in hits : \A j \in hits : k <= j
                     IN ExpandTags(CATEGORY_MAPPING[k], category_lower)
    IN  IF tags = <<>> THEN <<category_lower>> ELSE tags

\* The stripped entries of one category field of a product
FieldCategories(field) ==
    IF field.t = "list" /\ field.v # <<>> THEN [i \in 1..Len(field.v) |-> Strip(field.v[i])]
    ELSE IF field.t = "str" /\ field.v # <<>>
         THEN LET parts == Split(field.v, 44) IN [i \in 1..Len(parts) |-> Strip(parts[i])]
    ELSE <<>>

\* product_categories: primaryCategories then categories, lower-cased,
\* the empty ones dropped
ProductCategories(product) ==
    LET raw == FieldCategories(product.primaryCategories)
                   \o FieldCategories(product.categories)
        kept == SelectSeq(raw, LAMBDA c : c # <<>>)
    IN  [i \in 1..Len(kept) |-> Strip(Lower(kept[i]))]

\* has_audio_only and not has_video_tags
AudioOnly(cats) ==
    /\ \E i \in 1..Len(cats) : AnyIn(FilterAudioTags, cats[i])
    /\ ~\E i \in 1..Len(cats) : AnyIn(FilterVideoTags, cats[i])

has_explicit_video_tag(cats) ==
    \E i \in 1..Len(cats) : AnyIn(ExplicitVideoTags, cats[i])

\* One search tag against one category of the product
TagMatchesCategory(search_tag, product_cat, cats, tvClass) ==
    LET tag == Strip(Lower(search_tag))
        cat == Strip(Lower(product_cat))
    IN  \/ tag = cat
        \/ /\ Contains(cat, tag)
           /\ ~(tvClass /\ Contains(cat, HomeTheater) /\ ~has_explicit_video_tag(cats))
        \/ /\ ~Contains(cat, tag)
           /\ Len(tag) > 3
           /\ Contains(tag, cat)
           /\ ~(tvClass /\ Contains(tag, HomeTheater))

\* Some search tag matches some category of the product
AnyTagMatches(search_tags, cats, tvClass) ==
    \E s \in 1..Len(search_tags) : \E c \in 1..Len(cats) :
        TagMatchesCategory(search_tags[s], cats[c], cats, tvClass)

\* A loop body without the test for audio-only products
ProductMatches_keeping_audio(product, category_lower, search_tags) ==
    /\ ProductCategories(product) # <<>>
    /\ AnyTagMatches(search_tags, ProductCategories(product),
                     InList(category_lower, TvClassCategories))

\* Is the product kept by the filter?
ProductMatches(product, category_lower, search_tags) ==
    LET cats == ProductCategories(product)
        tvClass == InList(category_lower, TvClassCategories)
    IN  /\ cats # <<>>
        /\ ~(tvClass /\ AudioOnly(cats))
        /\ AnyTagMatches(search_tags, cats, tvClass)

\* filtered_products: the products the loop keeps, in their order
filtered_products(products, category_lower, search_tags) ==
    SelectSeq(products, LAMBDA p : ProductMatches(p, category_lower, search_tags))

\* sample_names = [p.get("name", "Unknown")[:30] for p in filtered_products[:5]]
\* is computed for a TV-class category when products were kept: slicing a
\* name that is None raises TypeError
SampleNamesRaise(category_lower, filtered) ==
    /\ filtered # <<>>
    /\ InList(category_lower, TvClassCategories)
    /\ \E i \in 1..Len(filtered) : i <= 5 /\ filtered[i].name = NullName

\* The result of the filter with the products kept: the list, or the
\* exception of the log line
Logged(category_lower, filtered) ==
    IF SampleNamesRaise(category_lower, filtered) THEN Raised("TypeError")
    ELSE Ok(filtered)

\* A loop that starts at the second product
filter_products_by_category_skip_first(products, category) ==
    IF products = <<>> \/ category = None \/ category[1] = <<>> THEN Ok(products)
    ELSE Logged(Strip(Lower(category[1])),
                filtered_products(Tail(products), Strip(Lower(category[1])),
                                  SearchTags(Strip(Lower(category[1])))))

filter_products_by_category(products, category) ==
    IF products = <<>> \/ category = None \/ category[1] = <<>> THEN Ok(products)
    ELSE Logged(Strip(Lower(category[1])),
                filtered_products(products, Strip(Lower(category[1])),
                                  SearchTags(Strip(Lower(category[1])))))

(***************************************************************************)
(* The filter applied to a product list, and again to its own result.      *)
(***************************************************************************)
\* Bound: length of the product lists
MaxFilterProducts == 2

FilterPool ==
    { Product(<<102, 49>> (* "f1" *), <<84, 86, 32, 52, 53, 32, 105, 110, 99, 104>> (* "TV 45 inch" *), Some(5), CatList(<< <<84, 86>> (* "TV" *) >>), CatNone, <<>>),
      Product(<<102, 50>> (* "f2" *), <<83, 112, 101, 97, 107, 101, 114, 32, 115, 101, 116>> (* "Speaker set" *), Some(3), CatNone, CatStr(<<72, 111, 109, 101, 32, 84, 104, 101, 97, 116, 101, 114, 44, 32, 83, 112, 101, 97, 107, 101, 114, 115>> (* "Home Theater, Speakers" *)), <<>>),
      Product(<<102, 51>> (* "f3" *), <<67, 105, 110, 101, 109, 97, 32, 98, 111, 120>> (* "Cinema box" *), Some(4), CatList(<< <<72, 111, 109, 101, 32, 84, 104, 101, 97, 116, 101, 114>> (* "Home Theater" *) >>), CatNone, <<>>),
      Product(<<102, 52>> (* "f4" *), <<80, 114, 111, 106, 101, 99, 116, 111, 114>> (* "Projector" *), Some(6), CatList(<< <<72, 111, 109, 101, 32, 84, 104, 101, 97, 116, 101, 114>> (* "Home Theater" *) >>),
              CatList(<< <<86, 105, 100, 101, 111>> (* "Video" *) >>), <<>>),
      Product(<<102, 53>> (* "f5" *), <<85, 110, 108, 97, 98, 101, 108, 108, 101, 100>> (* "Unlabelled" *), Some(1), CatNone, CatNone, <<>>),
      Product(<<102, 54>> (* "f6" *), <<78, 111, 116, 101, 98, 111, 111, 107>> (* "Notebook" *), Some(7), CatStr(<<76, 97, 112, 116, 111, 112, 115>> (* "Laptops" *)), CatNone, <<>>),
      Product(<<102, 55>> (* "f7" *), <<84, 86, 32, 98, 114, 97, 99, 107, 101, 116>> (* "TV bracket" *), Some(2), CatNone, CatStr(<<84, 86, 32, 77, 111, 117, 110, 116, 115, 44, 32, 44, 65, 117, 100, 105, 111>> (* "TV Mounts, ,Audio" *)), <<>>),
      Product(<<102, 56>> (* "f8" *), NullName, Some(8), CatList(<< <<84, 101, 108, 101, 118, 105, 115, 105, 111, 110, 115>> (* "Televisions" *) >>), CatNone, <<>>),
      Product(<<102, 57>> (* "f9" *), <<83, 112, 101, 97, 107, 101, 114, 32, 115, 116, 97, 110, 100>> (* "Speaker stand" *), Some(3), CatStr(<<83, 112, 101, 97, 107, 101, 114, 115, 44, 32, 65, 99, 99, 101, 115, 115, 111, 114, 105, 101, 115>> (* "Speakers, Accessories" *)),
              CatNone, <<>>) }

FilterCategories ==
    { None, Some(<<>> (* "" *)), Some(<<116, 118>> (* "tv" *)), Some(<<32, 84, 101, 108, 101, 118, 105, 115, 105, 111, 110, 115>> (* " Televisions" *)), Some(<<86, 105, 100, 101, 111, 32, 38, 32, 84, 86>> (* "Video & TV" *)),
      Some(<<65, 117, 100, 105, 111>> (* "Audio" *)), Some(<<115, 112, 101, 97, 107, 101, 114, 115>> (* "speakers" *)), Some(<<104, 111, 109, 101, 32, 116, 104, 101, 97, 116, 101, 114>> (* "home theater" *)), Some(<<103, 97, 100, 103, 101, 116, 115>> (* "gadgets" *)) }

FilterInit ==
    /\ fpc = "start"
    /\ fProducts \in SeqsUpTo(FilterPool, MaxFilterProducts)
    /\ fCategory \in FilterCategories
    /\ fResult = <<>>
    /\ fAgain = <<>>

FilterIdle ==
    /\ fpc = "off" /\ fProducts = <<>> /\ fCategory = None
    /\ fResult = <<>> /\ fAgain = <<>>

\* filter_products_by_category(P, C)
FilterOnce ==
    /\ fpc = "start"
    /\ \E out \in {filter_products_by_category(fProducts, fCategory)} :
        /\ fResult' = ValueOr(out, <<>>)
        /\ fpc' = (IF out.ok THEN "filtered" ELSE "raised")
    /\ UNCHANGED <<fProducts, fCategory, fAgain>>
    /\ UNCHANGED <<rankVars, crossVars, bundleVars, minorVars, toolVars, duckVars>>

\* filter_products_by_category(filter_products_by_category(P, C), C)
FilterAgain ==
    /\ fpc = "filtered"
    /\ \E out \in {filter_products_by_category(fResult, fCategory)} :
        /\ fAgain' = ValueOr(out, <<>>)
        /\ fpc' = (IF out.ok THEN "refiltered" ELSE "raised")
    /\ UNCHANGED <<fProducts, fCategory, fResult>>
    /\ UNCHANGED <<rankVars, crossVars, bundleVars, minorVars, toolVars, duckVars>>

FilterNext == FilterOnce \/ FilterAgain

\* C1: filtering by a category and then by the same category again returns
\* the same list (same products, same order) as filtering once.
C1_FilterIdempotent == fpc = "refiltered" => fAgain = fResult

\* A filter run that kept some products and dropped others, then ran again.
C1_Witness ==
    /\ fpc = "refiltered"
    /\ Len(fResult) >= 1
    /\ Len(fResult) < Len(fProducts)

\* C12: filter_products_by_category never raises for any product list
\* (fields absent, of wrong type, or None) and any category string; with an
\* absent or empty category it returns the input product list unchanged.
C12_FilterNeverRaises ==
    /\ fpc # "raised"
    /\ (fpc = "filtered" /\ (fCategory = None \/ fCategory[1] = <<>>)) =>
           fResult = fProducts

\* The requested category is TV-class: "tv" or "televisions" once lower-cased
\* and stripped
TvClassRequested ==
    fCategory # None /\ InList(Strip(Lower(fCategory[1])), TvClassCategories)

\* The lower-cased category tags of the product hold one of the tags
HoldsTag(product, tags) ==
    \E c \in 1..Len(ProductCategories(product)) :
        \E t \in 1..Len(tags) : Contains(ProductCategories(product)[c], tags[t])

AudioOnlyProduct(product) ==
    HoldsTag(product, FilterAudioTags) /\ ~HoldsTag(product, FilterVideoTags)

\* C16: when filtering for a TV-class category the filter never returns a
\* product whose category tags match an audio tag (speaker, headphone,
\* microphone, amplifier, stereo, portable audio) and match no video tag.
C16_NoAudioOnlyInTvResults ==
    (fpc \in {"filtered", "refiltered"} /\ TvClassRequested) =>
        \A i \in 1..Len(fResult) : ~AudioOnlyProduct(fResult[i])

\* A TV-class filter run over a list with an audio-only product of which one
\* category matches a search tag, and with a product that was kept.
C16_Witness ==
    /\ fpc = "filtered"
    /\ TvClassRequested
    /\ fResult # <<>>
    /\ \E k \in 1..Len(fProducts) :
           /\ AudioOnlyProduct(fProducts[k])
           /\ AnyTagMatches(SearchTags(Strip(Lower(fCategory[1]))),
                            ProductCategories(fProducts[k]), TRUE)

(***************************************************************************)
(* Keyword vocabularies and product helpers shared by the ranker, the      *)
(* cross-sell recommender and the solution bundle builder.                 *)
(***************************************************************************)
CROSS_SELL_PC_KEYWORDS ==
    << <<112, 99>> (* "pc" *), <<108, 97, 112, 116, 111, 112>> (* "laptop" *), <<110, 111, 116, 101, 98, 111, 111, 107>> (* "notebook" *), <<100, 101, 115, 107, 116, 111, 112>> (* "desktop" *), <<99, 111, 109, 112, 117, 116, 101, 114>> (* "computer" *), <<117, 108, 116, 114, 97, 98, 111, 111, 107>> (* "ultrabook" *),
       <<109, 97, 99, 98, 111, 111, 107>> (* "macbook" *), <<103, 97, 109, 105, 110, 103>> (* "gaming" *) >>

CROSS_SELL_TV_KEYWORDS ==
    << <<116, 118>> (* "tv" *), <<116, 101, 108, 101, 118, 105, 115, 111, 114, 101>> (* "televisore" *), <<116, 101, 108, 101, 118, 105, 115, 105, 111, 110>> (* "television" *), <<115, 109, 97, 114, 116, 32, 116, 118>> (* "smart tv" *), <<111, 108, 101, 100>> (* "oled" *), <<113, 108, 101, 100>> (* "qled" *) >>

CROSS_SELL_AUDIO_KEYWORDS ==
    << <<115, 111, 117, 110, 100, 98, 97, 114>> (* "soundbar" *), <<115, 117, 98, 119, 111, 111, 102, 101, 114>> (* "subwoofer" *), <<104, 111, 109, 101, 32, 116, 104, 101, 97, 116, 101, 114>> (* "home theater" *), <<104, 111, 109, 101, 45, 116, 104, 101, 97, 116, 101, 114>> (* "home-theater" *), <<115, 117, 114, 114, 111, 117, 110, 100>> (* "surround" *),
       <<100, 111, 108, 98, 121>> (* "dolby" *), <<115, 111, 117, 110, 100, 32, 115, 121, 115, 116, 101, 109>> (* "sound system" *), <<115, 112, 101, 97, 107, 101, 114>> (* "speaker" *) >>

CROSS_SELL_LED_KEYWORDS ==
    << <<108, 101, 100>> (* "led" *), <<97, 109, 98, 105, 101, 110, 116>> (* "ambient" *), <<115, 116, 114, 105, 112>> (* "strip" *), <<108, 105, 103, 104, 116, 105, 110, 103>> (* "lighting" *), <<98, 97, 99, 107, 108, 105, 103, 104, 116>> (* "backlight" *), <<98, 97, 99, 107, 32, 108, 105, 103, 104, 116>> (* "back light" *) >>

CROSS_SELL_MOUNT_KEYWORDS ==
    << <<115, 117, 112, 112, 111, 114, 116>> (* "support" *), <<115, 116, 97, 102, 102, 97>> (* "staffa" *), <<109, 111, 117, 110, 116>> (* "mount" *), <<98, 114, 97, 99, 107, 101, 116>> (* "bracket" *), <<115, 116, 97, 110, 100>> (* "stand" *) >>

SOLUTION_BUNDLE_GOAL_KEYWORDS ==
    << <<104, 111, 109, 101, 32, 116, 104, 101, 97, 116, 101, 114>> (* "home theater" *), <<104, 111, 109, 101, 32, 116, 104, 101, 97, 116, 114, 101>> (* "home theatre" *), <<104, 111, 109, 101, 45, 116, 104, 101, 97, 116, 101, 114>> (* "home-theater" *), <<104, 111, 109, 101, 45, 116, 104, 101, 97, 116, 114, 101>> (* "home-theatre" *),
       <<104, 111, 109, 101, 32, 99, 105, 110, 101, 109, 97>> (* "home cinema" *), <<99, 105, 110, 101, 109, 97>> (* "cinema" *) >>

SOLUTION_BUNDLE_SOUNDBAR_KEYWORDS == << <<115, 111, 117, 110, 100, 98, 97, 114>> (* "soundbar" *) >>

SOLUTION_BUNDLE_SUBWOOFER_KEYWORDS == << <<115, 117, 98, 119, 111, 111, 102, 101, 114>> (* "subwoofer" *) >>

\* The first list, joined with the mount and LED keywords (a set in the code:
\* only membership is used)
BUNDLE_ACCESSORY_EXCLUDE_KEYWORDS ==
    << <<97, 99, 99, 101, 115, 115, 111, 114>> (* "accessor" *), <<115, 117, 112, 112, 111, 114, 116, 111>> (* "supporto" *), <<115, 116, 97, 102, 102>> (* "staff" *), <<109, 111, 117, 110, 116>> (* "mount" *), <<98, 114, 97, 99, 107, 101, 116>> (* "bracket" *), <<115, 116, 97, 110, 100>> (* "stand" *),
       <<98, 97, 115, 101>> (* "base" *), <<107, 105, 116>> (* "kit" *), <<112, 97, 110, 110, 111>> (* "panno" *), <<109, 105, 99, 114, 111, 102, 105, 98, 114, 97>> (* "microfibra" *), <<99, 108, 101, 97, 110>> (* "clean" *), <<112, 117, 108, 105, 122, 105, 97>> (* "pulizia" *), <<99, 97, 118, 111>> (* "cavo" *),
       <<104, 100, 109, 105>> (* "hdmi" *), <<116, 101, 108, 101, 99, 111, 109, 97, 110, 100>> (* "telecomand" *), <<114, 101, 109, 111, 116, 101>> (* "remote" *), <<108, 101, 100>> (* "led" *), <<115, 116, 114, 105, 112>> (* "strip" *), <<108, 105, 103, 104, 116, 105, 110, 103>> (* "lighting" *),
       <<98, 97, 99, 107, 108, 105, 103, 104, 116>> (* "backlight" *), <<119, 97, 108, 108>> (* "wall" *) >>
    \o CROSS_SELL_MOUNT_KEYWORDS \o CROSS_SELL_LED_KEYWORDS

CROSS_SELL_CLEANING_TAG == <<115, 99, 114, 101, 101, 110, 45, 99, 108, 101, 97, 110, 105, 110, 103>> (* "screen-cleaning" *)
CROSS_SELL_POPULAR_TAG == <<112, 111, 112, 117, 108, 97, 114>> (* "popular" *)
CROSS_SELL_RECOMMENDED_TAG == <<114, 101, 99, 111, 109, 109, 101, 110, 100, 101, 100>> (* "recommended" *)
CROSS_SELL_SOUNDBAR_TAG == <<115, 111, 117, 110, 100, 98, 97, 114>> (* "soundbar" *)
CROSS_SELL_SUBWOOFER_TAG == <<115, 117, 98, 119, 111, 111, 102, 101, 114>> (* "subwoofer" *)
CROSS_SELL_LED_TAG == <<108, 101, 100>> (* "led" *)
CROSS_SELL_MOUNT_TAG == <<109, 111, 117, 110, 116>> (* "mount" *)

Space == <<32>> (* " " *)

\* The entries of one category field: the list entries that are not empty,
\* or the non-empty pieces of the comma-separated string, stripped
ExtractField(field) ==
    IF field.t = "list"
    THEN LET kept == SelectSeq(field.v, LAMBDA c : c # <<>>)
         IN [i \in 1..Len(kept) |-> Strip(kept[i])]
    ELSE IF field.t = "str"
    THEN LET parts == Split(field.v, 44)
             stripped == [i \in 1..Len(parts) |-> Strip(parts[i])]
         IN SelectSeq(stripped, LAMBDA c : c # <<>>)
    ELSE <<>>

_extract_product_categories(product) ==
    ExtractField(product.primaryCategories) \o ExtractField(product.categories)

\* product.get("name", ""): the name, the empty string when absent
NameOf(product) == product.name

\* A price field is a number, or absent
_extract_price_from_product(product) ==
    IF product.price = None THEN 0 ELSE product.price[1]

_has_home_theater_intent(keywords) ==
    IF keywords = <<>> THEN FALSE
    ELSE LET normalized ==
                 _normalize_text(Join(SelectSeq(keywords, LAMBDA k : k # <<>>), Space))
         IN \E g \in 1..Len(SOLUTION_BUNDLE_GOAL_KEYWORDS) :
                Contains(normalized, _normalize_text(SOLUTION_BUNDLE_GOAL_KEYWORDS[g]))

_is_accessory_product(product, accessory_keywords) ==
    IF accessory_keywords = <<>> THEN FALSE
    ELSE LET normalized_name == _normalize_text(NameOf(product))
             normalized_categories ==
                 _normalize_text(Join(_extract_product_categories(product), Space))
             combined == Strip(normalized_name \o Space \o normalized_categories)
         IN AnyIn(accessory_keywords, combined)

(***************************************************************************)
(* Relevance ranker: rank_products_by_criteria                             *)
(***************************************************************************)
\* Criteria: a dict with the keys below, each an optional value (None marks a
\* key that is absent); the keywords are a list, empty when absent.
Criteria(size, target, maxp, minp, kws) ==
    [size_inches |-> size, target_price |-> target, max_price |-> maxp,
     min_price |-> minp, keywords |-> kws]

\* The empty dict
NoCriteria == Criteria(None, None, None, None, <<>>)

\* not criteria: the argument is None or the empty dict
CriteriaEmpty(criteria) == criteria = None \/ criteria[1] = NoCriteria

\* Python truth of an optional number
Truthy(x) == x # None /\ x[1] # 0

Abs(x) == IF x < 0 THEN -x ELSE x

Max(a, b) == IF a >= b THEN a ELSE b

SizeUnits == << <<105, 110, 99, 104>> (* "inch" *), <<112, 111, 108, 108, 105, 99, 105>> (* "pollici" *), <<34>> (* "''" *), <<105, 110>> (* "in" *) >>

\* End of the run of digits that starts at position i
RECURSIVE DigitRunEnd(_, _)
DigitRunEnd(s, i) ==
    IF i + 1 <= Len(s) /\ IsDigit(s[i + 1]) THEN DigitRunEnd(s, i + 1) ELSE i

\* First position at or after i that is not a separator
RECURSIVE SkipSeparators(_, _, _)
SkipSeparators(s, i, hyphen) ==
    IF i <= Len(s) /\ (IsSpace(s[i]) \/ (hyphen /\ s[i] = 45))
    THEN SkipSeparators(s, i + 1, hyphen) ELSE i

StartsWithAt(s, i, word) ==
    i + Len(word) - 1 <= Len(s) /\ Lower(SubSeq(s, i, i + Len(word) - 1)) = word

\* (\d+) sep* (inch|pollici|"|in) matched at position i, case-insensitive
SizeMatchAt(s, i, hyphen) ==
    /\ IsDigit(s[i])
    /\ LET j == SkipSeparators(s, DigitRunEnd(s, i) + 1, hyphen)
       IN \E u \in 1..Len(SizeUnits) : StartsWithAt(s, j, SizeUnits[u])

\* re.search: the number captured by the leftmost match, or None
SizeSearch(s, hyphen) ==
    LET hits == {i \in 1..Len(s) : SizeMatchAt(s, i, hyphen)}
    IN  IF hits = {} THEN None
        ELSE LET i == CHOOSE i \in hits : \A j \in hits : i <= j
             IN Some(DigitsValue(SubSeq(s, i, DigitRunEnd(s, i)), 0))

\* The patterns in order: separators of white space, then of white space and
\* hyphens (the third pattern matches nothing the first does not)
extract_size_from_name(name) ==
    IF name = <<>> THEN None
    ELSE IF SizeSearch(name, FALSE) # None THEN SizeSearch(name, FALSE)
    ELSE SizeSearch(name, TRUE)

get_price(product) == IF product.price = None THEN 0 ELSE product.price[1]

\* A size step whose near band stops short of a difference of 5
SizeScore_near_below_five(product, criteria, score) ==
    LET target_size == criteria.size_inches
        product_size == extract_size_from_name(NameOf(product))
        size_diff == Abs(product_size[1] - target_size[1])
    IN  IF Truthy(target_size) /\ Truthy(product_size)
        THEN IF size_diff = 0 THEN 0
             ELSE IF size_diff < 5 THEN 10 + size_diff
             ELSE 50 + size_diff
        ELSE score

\* Step 1: size match
SizeScore(product, criteria, score) ==
    LET target_size == criteria.size_inches
        product_size == extract_size_from_name(NameOf(product))
        size_diff == Abs(product_size[1] - target_size[1])
    IN  IF Truthy(target_size) /\ Truthy(product_size)
        THEN IF size_diff = 0 THEN 0
             ELSE IF size_diff <= 5 THEN 10 + size_diff
             ELSE 50 + size_diff
        ELSE score

\* Step 2: price target.  The percentage is (diff / target) * 100; the target
\* prices of the model divide 100 in binary floating point exactly.
PriceTargetScore(product, criteria, score) ==
    LET target_price == criteria.target_price[1]
        product_price == get_price(product)
        price_diff == Abs(product_price - target_price)
        price_diff_percent ==
            IF target_price > 0 THEN (price_diff * 100) \div target_price ELSE 100
    IN  IF Truthy(criteria.target_price) /\ product_price > 0
        THEN IF score >= 1000
             THEN IF price_diff_percent <= 10 THEN 20
                  ELSE IF price_diff_percent <= 25 THEN 30
                  ELSE 40 + price_diff_percent
             ELSE IF price_diff_percent <= 25 THEN score + 1 ELSE score
        ELSE score

\* Step 3: range penalties
RangeScore(product, criteria, score) ==
    LET product_price == get_price(product)
        over == Truthy(criteria.max_price) /\ product_price > criteria.max_price[1]
        under == Truthy(criteria.min_price) /\ product_price < criteria.min_price[1]
    IN  score + (IF over THEN 100 ELSE 0) + (IF under THEN 50 ELSE 0)

HasKeywords(criteria) == criteria.keywords # <<>>

\* Step 4: keyword bonus
KeywordScore(product, criteria, score) ==
    LET text == Lower(NameOf(product)) \o Space \o Lower(product.descrizione_prodotto)
        matched_keywords ==
            Cardinality({k \in 1..Len(criteria.keywords) :
                            Contains(text, Lower(criteria.keywords[k]))})
    IN  IF HasKeywords(criteria) /\ matched_keywords > 0
        THEN Max(0, score - matched_keywords * 5)
        ELSE score

\* A deduction without the floor
Deduct_unfloored(keywords, combined_text, score, bonus) ==
    IF AnyIn(keywords, combined_text) THEN score - bonus ELSE score

\* max(0, score - bonus) when the text holds one of the keywords
Deduct(keywords, combined_text, score, bonus) ==
    IF AnyIn(keywords, combined_text) THEN Max(0, score - bonus) ELSE score

\* The four deductions of step 5, in the order of the code
HomeTheaterDeductions(combined_text, score) ==
    Deduct(CROSS_SELL_AUDIO_KEYWORDS, combined_text,
        Deduct(SOLUTION_BUNDLE_SOUNDBAR_KEYWORDS, combined_text,
            Deduct(SOLUTION_BUNDLE_SUBWOOFER_KEYWORDS, combined_text,
                Deduct(CROSS_SELL_TV_KEYWORDS, combined_text, score, 40), 25), 20), 10)

\* Step 5: home-theater intent
HomeTheaterScore(product, criteria, score) ==
    IF _has_home_theater_intent(criteria.keywords)
    THEN HomeTheaterDeductions(
             _normalize_text(NameOf(product) \o Space
                             \o Join(_extract_product_categories(product), Space)),
             IF _is_accessory_product(product, BUNDLE_ACCESSORY_EXCLUDE_KEYWORDS)
             THEN score + 120 ELSE score)
    ELSE score

BaseScore == 1000

\* The score of calculate_relevance_score (the first component of its key)
RelevanceScore(product, criteria) ==
    HomeTheaterScore(product, criteria,
        KeywordScore(product, criteria,
            RangeScore(product, criteria,
                PriceTargetScore(product, criteria,
                    SizeScore(product, criteria, BaseScore)))))

\* The value of score after each of the five steps
StepsFromKeyword(product, criteria, score) ==
    << score, HomeTheaterScore(product, criteria, score) >>

StepsFromRange(product, criteria, score) ==
    << score >> \o StepsFromKeyword(product, criteria, KeywordScore(product, criteria, score))

StepsFromPrice(product, criteria, score) ==
    << score >> \o StepsFromRange(product, criteria, RangeScore(product, criteria, score))

StepsFromSize(product, criteria, score) ==
    << score >> \o StepsFromPrice(product, criteria,
                                   PriceTargetScore(product, criteria, score))

ScoreSteps(product, criteria) ==
    StepsFromSize(product, criteria, SizeScore(product, criteria, BaseScore))

\* The sort key with the price ascending instead of descending
calculate_relevance_score_price_ascending(product, criteria) ==
    <<RelevanceScore(product, criteria), get_price(product), NameOf(product)>>

\* The sort key (score, -price, name)
calculate_relevance_score(product, criteria) ==
    <<RelevanceScore(product, criteria), -get_price(product), NameOf(product)>>

\* Python's < on the key tuples
KeyLess(a, b) ==
    \/ a[1] < b[1]
    \/ a[1] = b[1] /\ a[2] < b[2]
    \/ a[1] = b[1] /\ a[2] = b[2] /\ StrLess(a[3], b[3])

\* Insert x behind every element whose key is not greater (stable)
RECURSIVE InsertByKey(_, _)
InsertByKey(sorted, x) ==
    IF sorted = <<>> THEN <<x>>
    ELSE IF KeyLess(x.key, Head(sorted).key) THEN <<x>> \o sorted
    ELSE <<Head(sorted)>> \o InsertByKey(Tail(sorted), x)

RECURSIVE InsertionSort(_)
InsertionSort(keyed) ==
    IF keyed = <<>> THEN <<>>
    ELSE InsertByKey(InsertionSort(SubSeq(keyed, 1, Len(keyed) - 1)), keyed[Len(keyed)])

ItemsOf(keyed) == [i \in 1..Len(keyed) |-> keyed[i].item]

\* sorted(products, key=calculate_relevance_score): the key of each product
\* is computed once, and the sort is stable
SortedByKey(products, criteria) ==
    ItemsOf(InsertionSort(
        [i \in 1..Len(products) |->
            [key |-> calculate_relevance_score(products[i], criteria),
             item |-> products[i]]]))

\* The ranking without the early return for empty criteria
rank_products_by_criteria_no_guard(products, criteria) ==
    SortedByKey(products, IF criteria = None THEN NoCriteria ELSE criteria[1])

rank_products_by_criteria(products, criteria) ==
    IF products = <<>> \/ CriteriaEmpty(criteria) THEN products
    ELSE SortedByKey(products, criteria[1])

(***************************************************************************)
(* The ranker applied to a product list under some criteria.               *)
(***************************************************************************)
\* Bound: length of the product lists
MaxRankProducts == 3

RankPool ==
    { Product(<<114, 49>> (* "r1" *), <<84, 86, 32, 52, 53, 32, 105, 110, 99, 104>> (* "TV 45 inch" *), Some(4), CatList(<< <<84, 86>> (* "TV" *) >>), CatNone, <<>>),
      Product(<<114, 50>> (* "r2" *), <<84, 86, 32, 53, 48, 45, 105, 110, 99, 104>> (* "TV 50-inch" *), Some(5), CatList(<< <<84, 86>> (* "TV" *) >>), CatNone, <<>>),
      Product(<<114, 51>> (* "r3" *), <<70, 114, 97, 109, 101, 32, 48, 32, 105, 110>> (* "Frame 0 in" *), Some(2), CatNone, CatNone, <<>>),
      Product(<<114, 52>> (* "r4" *), <<83, 111, 117, 110, 100, 98, 97, 114>> (* "Soundbar" *), Some(4), CatNone, CatStr(<<65, 117, 100, 105, 111>> (* "Audio" *)), <<68, 111, 108, 98, 121, 32, 115, 111, 117, 110, 100>> (* "Dolby sound" *)),
      Product(<<114, 53>> (* "r5" *), <<83, 111, 117, 110, 100, 98, 97, 114>> (* "Soundbar" *), Some(4), CatNone, CatStr(<<65, 117, 100, 105, 111>> (* "Audio" *)), <<68, 111, 108, 98, 121, 32, 115, 111, 117, 110, 100>> (* "Dolby sound" *)),
      Product(<<114, 54>> (* "r6" *), <<72, 68, 77, 73, 32, 99, 97, 98, 108, 101>> (* "HDMI cable" *), None, CatNone, CatNone, <<>>),
      Product(<<114, 55>> (* "r7" *), <<67, 97, 109, 32, 49, 48, 56, 48, 32, 73, 110, 100, 111, 111, 114>> (* "Cam 1080 Indoor" *), Some(4), CatNone, CatNone, <<>>) }

RankCriteria ==
    { None, Some(NoCriteria),
      Some(Criteria(Some(45), None, None, None, <<>>)),
      Some(Criteria(Some(50), None, None, None, <<>>)),
      Some(Criteria(Some(60), None, None, None, <<>>)),
      Some(Criteria(Some(5), None, None, None, <<>>)),
      Some(Criteria(Some(0), None, None, None, <<>>)),
      Some(Criteria(None, Some(4), None, None, <<>>)),
      Some(Criteria(Some(45), Some(4), None, None, <<>>)),
      Some(Criteria(Some(50), Some(3), None, None, <<>>)),
      Some(Criteria(Some(45), Some(4), None, None, << <<116, 118>> (* "tv" *), <<72, 111, 109, 101, 32, 84, 104, 101, 97, 116, 101, 114>> (* "Home Theater" *) >>)),
      Some(Criteria(Some(45), None, None, None, << <<72, 111, 109, 101, 32, 84, 104, 101, 97, 116, 101, 114>> (* "Home Theater" *) >>)),
      Some(Criteria(None, None, Some(4), Some(3), <<>>)),
      Some(Criteria(None, None, None, None, << <<84, 86>> (* "TV" *), <<115, 111, 117, 110, 100>> (* "sound" *) >>)),
      Some(Criteria(None, None, None, None, << <<72, 111, 109, 101, 32, 84, 104, 101, 97, 116, 101, 114>> (* "Home Theater" *) >>)) }

\* Lists without repetition, so that a product's place in the input is known
DistinctSeqs(S, n) ==
    {s \in SeqsUpTo(S, n) : \A i, j \in 1..Len(s) : i # j => s[i] # s[j]}

RankInit ==
    /\ rpc = "start"
    /\ rProducts \in DistinctSeqs(RankPool, MaxRankProducts)
    /\ rCriteria \in RankCriteria
    /\ rResult = <<>>
    /\ rScores = <<>>
    /\ rSteps = <<>>

RankIdle ==
    /\ rpc = "off" /\ rProducts = <<>> /\ rCriteria = None
    /\ rResult = <<>> /\ rScores = <<>> /\ rSteps = <<>>

\* rank_products_by_criteria(products, criteria); rScores records the score
\* calculate_relevance_score gives each product of the result, rSteps the
\* values its variable score takes after each of the five steps
Rank ==
    /\ rpc = "start"
    /\ rResult' = rank_products_by_criteria(rProducts, rCriteria)
    /\ rScores' = IF CriteriaEmpty(rCriteria) THEN <<>>
                  ELSE [i \in 1..Len(rResult') |-> RelevanceScore(rResult'[i], rCriteria[1])]
    /\ rSteps' = IF CriteriaEmpty(rCriteria) THEN <<>>
                 ELSE [i \in 1..Len(rResult') |-> ScoreSteps(rResult'[i], rCriteria[1])]
    /\ rpc' = "ranked"
    /\ UNCHANGED <<rProducts, rCriteria>>
    /\ UNCHANGED <<filterVars, crossVars, bundleVars, minorVars, toolVars, duckVars>>

RankNext == Rank

\* Place of a product in the input list
InputPlace(p) == CHOOSE k \in 1..Len(rProducts) : rProducts[k] = p

\* C2: with absent or empty criteria the ranking returns the input list
\* unchanged: same products, same order.
C2_EmptyCriteriaUnchanged ==
    (rpc = "ranked" /\ CriteriaEmpty(rCriteria)) => rResult = rProducts

\* Empty criteria and an input that is not in (score, -price, name) order.
C2_Witness ==
    /\ rpc = "ranked"
    /\ CriteriaEmpty(rCriteria)
    /\ Len(rProducts) >= 2
    /\ get_price(rProducts[1]) < get_price(rProducts[2])

\* C3: with non-empty criteria the result is a rearrangement of the input in
\* ascending (score, -price, name) order: equal scores put the higher price
\* first, equal score and price the smaller name first, and products equal
\* on all three keep their input order.
C3_SortedStable ==
    (rpc = "ranked" /\ ~CriteriaEmpty(rCriteria)) =>
        /\ Len(rResult) = Len(rProducts)
        /\ \A k \in 1..Len(rProducts) : \E i \in 1..Len(rResult) : rResult[i] = rProducts[k]
        /\ \A i, j \in 1..Len(rResult) : i < j =>
            LET a == rResult[i]
                b == rResult[j]
                sameScore == rScores[i] = rScores[j]
                samePrice == get_price(a) = get_price(b)
                sameName == NameOf(a) = NameOf(b)
            IN  /\ rScores[i] <= rScores[j]
                /\ sameScore => get_price(a) >= get_price(b)
                /\ (sameScore /\ samePrice) => ~StrLess(NameOf(b), NameOf(a))
                /\ (sameScore /\ samePrice /\ sameName) => InputPlace(a) < InputPlace(b)

\* A ranking that reordered its input and had to break a tie on the price,
\* one on the name and one on the input order.
C3_Witness ==
    /\ rpc = "ranked"
    /\ ~CriteriaEmpty(rCriteria)
    /\ rResult # rProducts
    /\ \E i, j \in 1..Len(rResult) :
           i < j /\ rScores[i] = rScores[j] /\ get_price(rResult[i]) > get_price(rResult[j])
    /\ \E i, j \in 1..Len(rResult) :
           /\ i < j /\ rScores[i] = rScores[j]
           /\ get_price(rResult[i]) = get_price(rResult[j])
           /\ NameOf(rResult[i]) = NameOf(rResult[j])

OnlySize(criteria) ==
    /\ criteria # None
    /\ criteria[1].size_inches # None
    /\ criteria[1] = Criteria(criteria[1].size_inches, None, None, None, <<>>)

TargetSize == rCriteria[1].size_inches[1]

ClaimedSizeScore(diff) ==
    IF diff = 0 THEN 0 ELSE IF diff <= 5 THEN 10 + diff ELSE 50 + diff

\* C4 as stated: with only a target size, a product whose name yields size S
\* scores 0, 10 + diff or 50 + diff by diff = |S - target|, and a product
\* without an extractable size scores 1000.
C4_SizeScoreAsStated ==
    (rpc = "ranked" /\ OnlySize(rCriteria)) =>
        \A i \in 1..Len(rResult) :
            LET S == extract_size_from_name(NameOf(rResult[i]))
            IN  IF S = None THEN rScores[i] = 1000
                ELSE rScores[i] = ClaimedSizeScore(Abs(S[1] - TargetSize))

\* C4 (amended): the same for a target size other than 0 and a name that
\* yields a size other than 0; with the target size 0, or a name that yields
\* no size or the size 0, the score stays at 1000.
C4_SizeScore ==
    (rpc = "ranked" /\ OnlySize(rCriteria)) =>
        \A i \in 1..Len(rResult) :
            LET S == extract_size_from_name(NameOf(rResult[i]))
            IN  IF S = None \/ S = Some(0) \/ TargetSize = 0 THEN rScores[i] = 1000
                ELSE rScores[i] = ClaimedSizeScore(Abs(S[1] - TargetSize))

TV45 == <<84, 86, 32, 52, 53, 32, 105, 110, 99, 104>> (* "TV 45 inch" *)

\* The product "TV 45 inch" scored 0, 15 and 65 against the targets 45, 50
\* and 60, next to a product without a size.
C4_Witness ==
    /\ rpc = "ranked"
    /\ OnlySize(rCriteria)
    /\ \E i, j \in 1..Len(rResult) :
        /\ NameOf(rResult[i]) = TV45
        /\ rScores[i] = CASE TargetSize = 45 -> 0
                          [] TargetSize = 50 -> 15
                          [] TargetSize = 60 -> 65
                          [] OTHER -> -1
        /\ extract_size_from_name(NameOf(rResult[j])) = None
        /\ rScores[j] = 1000


\* The size step set a score: a target size is given and the name yields a size
SizeScoreSet(product) ==
    /\ Truthy(rCriteria[1].size_inches)
    /\ Truthy(extract_size_from_name(NameOf(product)))

\* The price of the product is within 25% of the target price
NearTargetPrice(product) ==
    /\ Truthy(rCriteria[1].target_price)
    /\ get_price(product) > 0
    /\ rCriteria[1].target_price[1] > 0
    /\ Abs(get_price(product) - rCriteria[1].target_price[1]) * 100
           <= 25 * rCriteria[1].target_price[1]

\* C14: whenever the size step set a score, the price-target step does not
\* replace it: it leaves it unchanged, or adds exactly 1 when the price is
\* within 25% of the target; the price-based scores 20, 30 and 40 + percent
\* are given only to products for which no size-based score was set.
C14_PriceStepKeepsSizeScore ==
    (rpc = "ranked" /\ ~CriteriaEmpty(rCriteria)) =>
        \A i \in 1..Len(rResult) :
            SizeScoreSet(rResult[i]) =>
                rSteps[i][2] = (IF NearTargetPrice(rResult[i]) THEN rSteps[i][1] + 1
                                ELSE rSteps[i][1])

\* C15: the relevance score of a product is never negative: the keyword
\* reduction and the home-theater reductions are floored at 0, so the score
\* is not negative after any step.
C15_ScoreNeverNegative ==
    (rpc = "ranked" /\ ~CriteriaEmpty(rCriteria)) =>
        \A i \in 1..Len(rResult) :
            /\ rScores[i] = rSteps[i][5]
            /\ \A k \in 1..5 : rSteps[i][k] >= 0
            /\ rSteps[i][4] <= rSteps[i][3]
            /\ rSteps[i][5] <= rSteps[i][4] + 120

\* A product whose keyword reduction stopped at the floor (a score of 1 to
\* 4 before it, 0 after) and whose home-theater reduction for a TV keyword
\* then left the score at 0.
C15_Witness ==
    /\ rpc = "ranked"
    /\ ~CriteriaEmpty(rCriteria)
    /\ \E i \in 1..Len(rResult) :
           /\ rSteps[i][3] \in 1..4
           /\ rSteps[i][4] = 0
           /\ _has_home_theater_intent(rCriteria[1].keywords)
           /\ AnyIn(CROSS_SELL_TV_KEYWORDS, _normalize_text(NameOf(rResult[i])))
           /\ rSteps[i][5] = 0
(***************************************************************************)
(* Minor-unit conversion: _currency_exponent, _to_minor_amount             *)
(***************************************************************************)
ZERO_DECIMAL_CURRENCIES ==
    { <<98, 105, 102>> (* "bif" *), <<99, 108, 112>> (* "clp" *), <<100, 106, 102>> (* "djf" *), <<103, 110, 102>> (* "gnf" *), <<106, 112, 121>> (* "jpy" *), <<107, 109, 102>> (* "kmf" *), <<107, 114, 119>> (* "krw" *), <<109, 103, 97>> (* "mga" *), <<112, 121, 103>> (* "pyg" *),
      <<114, 119, 102>> (* "rwf" *), <<117, 103, 120>> (* "ugx" *), <<118, 110, 100>> (* "vnd" *), <<118, 117, 118>> (* "vuv" *), <<120, 97, 102>> (* "xaf" *), <<120, 111, 102>> (* "xof" *), <<120, 112, 102>> (* "xpf" *) }

THREE_DECIMAL_CURRENCIES == { <<98, 104, 100>> (* "bhd" *), <<106, 111, 100>> (* "jod" *), <<107, 119, 100>> (* "kwd" *), <<111, 109, 114>> (* "omr" *), <<116, 110, 100>> (* "tnd" *) }

_currency_exponent(currency) ==
    LET currency_lower == Lower(currency)
    IN  IF currency_lower \in ZERO_DECIMAL_CURRENCIES THEN 0
        ELSE IF currency_lower \in THREE_DECIMAL_CURRENCIES THEN 3
        ELSE 2

\* Decimal(str(amount_major)): sign * coef * 10^exp
Dec(sign, coef, exp) == [sign |-> sign, coef |-> coef, exp |-> exp]

RECURSIVE Pow10(_)
Pow10(n) == IF n <= 0 THEN 1 ELSE 10 * Pow10(n - 1)

\* Number of digits of a coefficient
RECURSIVE Digits(_)
Digits(n) == IF n < 10 THEN 1 ELSE 1 + Digits(n \div 10)

\* Precision of the default decimal context
DecimalPrecision == 28

\* Digits of the coefficient that quantize to 10^-exponent would need
QuantizedDigits(d, exponent) ==
    IF d.coef = 0 THEN 1
    ELSE IF d.exp + exponent >= 0 THEN Digits(d.coef) + d.exp + exponent
    ELSE Max(1, Digits(d.coef) + d.exp + exponent)

\* Coefficient of d at 10^-exponent, the dropped digits rounded half up
\* (ROUND_HALF_UP: a tie goes away from zero)
QuantizeHalfUp(d, exponent) ==
    LET shift == d.exp + exponent
        unit == Pow10(-shift)
        q == d.coef \div unit
        r == d.coef % unit
    IN  IF shift >= 0 THEN d.coef * Pow10(shift)
        ELSE IF 2 * r >= unit THEN q + 1 ELSE q

\* The same with ROUND_HALF_EVEN
QuantizeHalfEven(d, exponent) ==
    LET shift == d.exp + exponent
        unit == Pow10(-shift)
        q == d.coef \div unit
        r == d.coef % unit
    IN  IF shift >= 0 THEN d.coef * Pow10(shift)
        ELSE IF 2 * r > unit \/ (2 * r = unit /\ q % 2 = 1) THEN q + 1 ELSE q

\* The conversion rounding a tie to the even neighbour
_to_minor_amount_half_even(amount_major, currency) ==
    LET exponent == _currency_exponent(currency)
    IN  IF QuantizedDigits(amount_major, exponent) > DecimalPrecision
        THEN Raised("InvalidOperation")
        ELSE Ok(amount_major.sign * QuantizeHalfEven(amount_major, exponent))

\* quantize raises InvalidOperation when the result does not fit the
\* precision of the context; int(quantized * 10^exponent) otherwise
_to_minor_amount(amount_major, currency) ==
    LET exponent == _currency_exponent(currency)
    IN  IF QuantizedDigits(amount_major, exponent) > DecimalPrecision
        THEN Raised("InvalidOperation")
        ELSE Ok(amount_major.sign * QuantizeHalfUp(amount_major, exponent))

(***************************************************************************)
(* The conversion applied to an amount and a currency.                     *)
(***************************************************************************)
AmountCoefs == {0, 1, 4, 5, 6, 15, 25, 100, 1005, 10005, 14999, 15000}

AmountExps == {-4, -3, -2, -1, 0}

\* 1e+30 and 1e+29, as str() writes them: beyond the precision at every
\* currency exponent
HugeAmounts == {Dec(1, 1, 30), Dec(1, 1, 29)}

MinorAmounts ==
    {Dec(s, c, e) : s \in {1, -1}, c \in AmountCoefs, e \in AmountExps} \cup HugeAmounts

MinorCurrencies == { <<101, 117, 114>> (* "eur" *), <<69, 85, 82>> (* "EUR" *), <<117, 115, 100>> (* "usd" *), <<106, 112, 121>> (* "jpy" *), <<74, 80, 89>> (* "JPY" *), <<107, 119, 100>> (* "kwd" *) }

MinorInit ==
    /\ mpc = "start"
    /\ mAmount \in MinorAmounts
    /\ mCurrency \in MinorCurrencies
    /\ mResult = Raised("none")

MinorIdle ==
    /\ mpc = "off" /\ mAmount = Dec(1, 0, 0) /\ mCurrency = <<>>
    /\ mResult = Raised("none")

\* _to_minor_amount(amount, currency)
ToMinor ==
    /\ mpc = "start"
    /\ mResult' = _to_minor_amount(mAmount, mCurrency)
    /\ mpc' = "done"
    /\ UNCHANGED <<mAmount, mCurrency>>
    /\ UNCHANGED <<filterVars, rankVars, crossVars, bundleVars, toolVars, duckVars>>

MinorNext == ToMinor

\* The exponent the claim gives a currency
ClaimedExponent(currency) ==
    IF Lower(currency) \in ZERO_DECIMAL_CURRENCIES THEN 0
    ELSE IF Lower(currency) \in THREE_DECIMAL_CURRENCIES THEN 3
    ELSE 2

\* C8: the result is the amount scaled by 10^exponent and rounded to the
\* nearest integer, a tie going up (away from zero); the exponent is 0 for
\* the zero-decimal currencies, 3 for the three-decimal ones and 2 otherwise.
\* 10.005 in eur gives 1001 and 100 in jpy gives 100.
C8_HalfUpMinor ==
    (mpc = "done" /\ mResult.ok) =>
        LET e == ClaimedExponent(mCurrency)
            \* |amount| * 10^e = num / den
            num == mAmount.coef * Pow10(mAmount.exp + e)
            den == Pow10(-(mAmount.exp + e))
            mag == Abs(mResult.v)
        IN  /\ mResult.v = mAmount.sign * mag
            /\ 2 * Abs(mag * den - num) <= den
            /\ 2 * Abs(mag * den - num) = den => mag * den > num
            /\ (mAmount = Dec(1, 10005, -3) /\ mCurrency = <<101, 117, 114>> (* "eur" *)) => mResult.v = 1001
            /\ (mAmount = Dec(1, 100, 0) /\ mCurrency = <<106, 112, 121>> (* "jpy" *)) => mResult.v = 100

\* 10.005 eur was converted to 1001.
C8_Witness ==
    /\ mpc = "done"
    /\ mAmount = Dec(1, 10005, -3)
    /\ mCurrency = <<101, 117, 114>> (* "eur" *)
    /\ mResult = Ok(1001)

(***************************************************************************)
(* Accessory / cross-sell recommender                                      *)
(***************************************************************************)
\* A cross-sell catalog item.  Absent text fields are the empty string.
Item(id, sku, name, price, tags, compatibleWith, priority) ==
    [id |-> id, sku |-> sku, name |-> name, price |-> price, tags |-> tags,
     compatibleWith |-> compatibleWith, priority |-> priority]

\* A cart item (CrossSellCartItemInput); the optional texts and the category
\* are the empty string when absent, the tags the empty list
CartItem(id, name, description, tags, category) ==
    [id |-> id, name |-> name, description |-> description,
     short_description |-> <<>>, detail_summary |-> <<>>, tags |-> tags,
     category |-> category]

PC == <<112, 99>> (* "pc" *)
TV == <<116, 118>> (* "tv" *)
AUDIO == <<97, 117, 100, 105, 111>> (* "audio" *)
LED == <<108, 101, 100>> (* "led" *)

CROSS_SELL_FALLBACK_CATALOG ==
    << Item(<<99, 115, 45, 99, 108, 101, 97, 110, 45, 99, 108, 111, 116, 104, 45, 48, 49>> (* "cs-clean-cloth-01" *), <<67, 83, 45, 67, 76, 69, 65, 78, 45, 67, 76, 79, 84, 72, 45, 48, 49>> (* "CS-CLEAN-CLOTH-01" *),
            <<80, 97, 110, 110, 111, 32, 105, 110, 32, 109, 105, 99, 114, 111, 102, 105, 98, 114, 97, 32, 112, 101, 114, 32, 115, 99, 104, 101, 114, 109, 105>> (* "Panno in microfibra per schermi" *), 990,
            << CROSS_SELL_CLEANING_TAG, CROSS_SELL_POPULAR_TAG >>, << PC, TV >>, 95),
       Item(<<99, 115, 45, 99, 108, 101, 97, 110, 45, 115, 112, 114, 97, 121, 45, 48, 49>> (* "cs-clean-spray-01" *), <<67, 83, 45, 67, 76, 69, 65, 78, 45, 83, 80, 82, 65, 89, 45, 48, 49>> (* "CS-CLEAN-SPRAY-01" *),
            <<83, 112, 114, 97, 121, 32, 100, 101, 108, 105, 99, 97, 116, 111, 32, 112, 101, 114, 32, 112, 117, 108, 105, 122, 105, 97, 32, 100, 105, 115, 112, 108, 97, 121>> (* "Spray delicato per pulizia display" *), 1290,
            << CROSS_SELL_CLEANING_TAG, CROSS_SELL_RECOMMENDED_TAG >>, << PC, TV >>, 90),
       Item(<<99, 115, 45, 117, 115, 98, 45, 99, 45, 48, 49>> (* "cs-usb-c-01" *), <<67, 83, 45, 85, 83, 66, 45, 67, 45, 48, 49>> (* "CS-USB-C-01" *), <<67, 97, 118, 111, 32, 85, 83, 66, 45, 67, 32, 49, 48, 48, 87, 32, 105, 110, 116, 114, 101, 99, 99, 105, 97, 116, 111>> (* "Cavo USB-C 100W intrecciato" *), 1990,
            << <<117, 115, 98, 45, 99>> (* "usb-c" *), CROSS_SELL_RECOMMENDED_TAG >>, << PC >>, 80),
       Item(<<99, 115, 45, 99, 104, 97, 114, 103, 101, 114, 45, 48, 49>> (* "cs-charger-01" *), <<67, 83, 45, 67, 72, 65, 82, 71, 69, 82, 45, 48, 49>> (* "CS-CHARGER-01" *), <<67, 97, 114, 105, 99, 97, 116, 111, 114, 101, 32, 85, 83, 66, 45, 67, 32, 54, 53, 87>> (* "Caricatore USB-C 65W" *), 3490,
            << <<99, 104, 97, 114, 103, 101, 114>> (* "charger" *), CROSS_SELL_POPULAR_TAG >>, << PC >>, 78),
       Item(<<99, 115, 45, 104, 100, 109, 105, 45, 48, 49>> (* "cs-hdmi-01" *), <<67, 83, 45, 72, 68, 77, 73, 45, 48, 49>> (* "CS-HDMI-01" *), <<67, 97, 118, 111, 32, 72, 68, 77, 73, 32, 50, 46, 49, 32, 97, 100, 32, 97, 108, 116, 97, 32, 118, 101, 108, 111, 99, 105, 116, 97>> (* "Cavo HDMI 2.1 ad alta velocita" *), 2490,
            << <<104, 100, 109, 105>> (* "hdmi" *), CROSS_SELL_POPULAR_TAG >>, << TV >>, 82),
       Item(<<99, 115, 45, 114, 101, 109, 111, 116, 101, 45, 48, 49>> (* "cs-remote-01" *), <<67, 83, 45, 82, 69, 77, 79, 84, 69, 45, 48, 49>> (* "CS-REMOTE-01" *), <<84, 101, 108, 101, 99, 111, 109, 97, 110, 100, 111, 32, 117, 110, 105, 118, 101, 114, 115, 97, 108, 101, 32, 115, 109, 97, 114, 116>> (* "Telecomando universale smart" *), 2990,
            << <<114, 101, 109, 111, 116, 101>> (* "remote" *), CROSS_SELL_RECOMMENDED_TAG >>, << TV >>, 75),
       Item(<<99, 115, 45, 109, 111, 117, 110, 116, 45, 48, 49>> (* "cs-mount-01" *), <<67, 83, 45, 77, 79, 85, 78, 84, 45, 48, 49>> (* "CS-MOUNT-01" *), <<83, 116, 97, 102, 102, 97, 32, 84, 86, 32, 115, 108, 105, 109, 32, 111, 114, 105, 101, 110, 116, 97, 98, 105, 108, 101>> (* "Staffa TV slim orientabile" *), 4990,
            << <<116, 118, 45, 109, 111, 117, 110, 116>> (* "tv-mount" *), CROSS_SELL_RECOMMENDED_TAG >>, << TV >>, 72),
       Item(<<99, 115, 45, 117, 112, 115, 45, 48, 49>> (* "cs-ups-01" *), <<67, 83, 45, 85, 80, 83, 45, 48, 49>> (* "CS-UPS-01" *), <<67, 105, 97, 98, 97, 116, 116, 97, 32, 99, 111, 110, 32, 112, 114, 111, 116, 101, 122, 105, 111, 110, 101, 32, 85, 80, 83>> (* "Ciabatta con protezione UPS" *), 3990,
            << <<112, 111, 119, 101, 114>> (* "power" *), CROSS_SELL_POPULAR_TAG >>, << PC, TV >>, 70),
       Item(<<99, 115, 45, 115, 116, 97, 110, 100, 45, 48, 49>> (* "cs-stand-01" *), <<67, 83, 45, 83, 84, 65, 78, 68, 45, 48, 49>> (* "CS-STAND-01" *), <<83, 117, 112, 112, 111, 114, 116, 111, 32, 100, 97, 32, 115, 99, 114, 105, 118, 97, 110, 105, 97, 32, 114, 101, 103, 111, 108, 97, 98, 105, 108, 101>> (* "Supporto da scrivania regolabile" *), 4490,
            << <<115, 116, 97, 110, 100>> (* "stand" *), CROSS_SELL_RECOMMENDED_TAG >>, << PC >>, 68) >>

\* The truthy chunks of the cart items, joined by spaces
RECURSIVE _collect_cart_text_chunks(_)
_collect_cart_text_chunks(cart_items) ==
    IF cart_items = <<>> THEN <<>>
    ELSE LET item == Head(cart_items)
         IN << item.name, item.description, item.short_description,
               item.detail_summary, Join(item.tags, Space) >>
            \o _collect_cart_text_chunks(Tail(cart_items))

_collect_cart_text(cart_items) ==
    Join(SelectSeq(_collect_cart_text_chunks(cart_items), LAMBDA c : c # <<>>), Space)

ExplicitPcWords == << <<112, 99>> (* "pc" *), <<108, 97, 112, 116, 111, 112>> (* "laptop" *), <<100, 101, 115, 107, 116, 111, 112>> (* "desktop" *) >>

\* Is a cart item's own category one of the words (by substring)?
ExplicitCategory(cart_items, words) ==
    \E i \in 1..Len(cart_items) :
        /\ cart_items[i].category # <<>>
        /\ AnyIn(words, _normalize_text(cart_items[i].category))

ExplicitTvWords == << <<116, 118>> (* "tv" *), <<116, 101, 108, 101, 118, 105, 115>> (* "televis" *) >>

CategoryList(has_pc, has_tv, has_audio, has_led) ==
    [categories |-> (IF has_pc THEN <<PC>> ELSE <<>>)
                    \o (IF has_tv THEN <<TV>> ELSE <<>>)
                    \o (IF has_audio THEN <<AUDIO>> ELSE <<>>)
                    \o (IF has_led THEN <<LED>> ELSE <<>>),
     has_screen_device |-> has_pc \/ has_tv \/ has_audio \/ has_led]

CategoryIntent(cart_items, normalized_text) ==
    CategoryList(
        ExplicitCategory(cart_items, ExplicitPcWords)
            \/ AnyIn(CROSS_SELL_PC_KEYWORDS, normalized_text),
        ExplicitCategory(cart_items, ExplicitTvWords)
            \/ AnyIn(CROSS_SELL_TV_KEYWORDS, normalized_text),
        AnyIn(CROSS_SELL_AUDIO_KEYWORDS, normalized_text),
        AnyIn(CROSS_SELL_LED_KEYWORDS, normalized_text))

\* A keyword that is one of the tokens of the text is also a substring of it,
\* so "keyword in tokens or keyword in normalized_text" is the substring test.
_get_cart_category_intent(cart_items) ==
    IF cart_items = <<>> THEN [categories |-> <<>>, has_screen_device |-> FALSE]
    ELSE CategoryIntent(cart_items, _normalize_text(_collect_cart_text(cart_items)))

\* The normalized ids and the normalized names of the cart items
_get_cart_identifiers(cart_items) ==
    [ids |-> {_normalize_text(cart_items[i].id) :
                 i \in {k \in 1..Len(cart_items) : cart_items[k].id # <<>>}},
     names |-> {_normalize_text(cart_items[i].name) :
                   i \in {k \in 1..Len(cart_items) : cart_items[k].name # <<>>}}]

_has_accessory_keyword(cart_items, keywords) ==
    AnyIn(keywords, _normalize_text(_collect_cart_text(cart_items)))

\* sorted(items, key=priority, reverse=True): stable, the larger key first
SortDescending(items, Key(_)) ==
    LET n == Len(items)
        place(i) == 1 + Cardinality({j \in 1..n :
                        \/ Key(items[j]) > Key(items[i])
                        \/ Key(items[j]) = Key(items[i]) /\ j < i})
    IN  [p \in 1..n |-> items[CHOOSE i \in 1..n : place(i) = p]]

PriorityOf(item) == item.priority

_sort_by_priority(items) == SortDescending(items, PriorityOf)

\* Keep the first item of each SKU; drop the items without one
RECURSIVE DedupeFrom(_, _)
DedupeFrom(items, seen) ==
    IF items = <<>> THEN <<>>
    ELSE IF Head(items).sku = <<>> \/ Head(items).sku \in seen
         THEN DedupeFrom(Tail(items), seen)
    ELSE <<Head(items)>> \o DedupeFrom(Tail(items), seen \cup {Head(items).sku})

_dedupe_by_sku(items) == DedupeFrom(items, {})

SkusOf(items) == {items[i].sku : i \in 1..Len(items)}

\* push_suggestion for each item of a list, in order
RECURSIVE PushAll(_, _)
PushAll(suggestions, items) ==
    IF items = <<>> THEN suggestions
    ELSE IF Head(items).sku = <<>> \/ Head(items).sku \in SkusOf(suggestions)
         THEN PushAll(suggestions, Tail(items))
    ELSE PushAll(Append(suggestions, Head(items)), Tail(items))

\* s[:n]
Take(s, n) == SubSeq(s, 1, IF n < Len(s) THEN n ELSE Len(s))

HasTag(item, tag) == InList(tag, item.tags)

\* The items whose normalized sku and id are not among the ids and whose
\* normalized name is not among the names, one per SKU
NotIn(ids, names, catalog) ==
    _dedupe_by_sku(SelectSeq(catalog, LAMBDA item :
        /\ _normalize_text(item.sku) \notin ids
        /\ _normalize_text(item.id) \notin ids
        /\ _normalize_text(item.name) \notin names))

\* The eligibility filter without the comparison of the names
EligibleIgnoringNames(cart_items, catalog) ==
    NotIn(_get_cart_identifiers(cart_items).ids, {}, catalog)

\* The catalog items that are not in the cart, one per SKU
Eligible(cart_items, catalog) ==
    NotIn(_get_cart_identifiers(cart_items).ids,
          _get_cart_identifiers(cart_items).names, catalog)

\* The single top-priority candidate carrying one of the tags
TopTagged(candidates, tags) ==
    Take(_sort_by_priority(SelectSeq(candidates, LAMBDA item :
            \E t \in 1..Len(tags) : HasTag(item, tags[t]))), 1)

\* Pass a: up to two cleaning items compatible with a detected class
CleaningPass(intent, eligible, suggestions) ==
    IF intent.has_screen_device /\ intent.categories # <<>>
    THEN PushAll(suggestions,
             Take(_sort_by_priority(SelectSeq(eligible, LAMBDA item :
                      /\ HasTag(item, CROSS_SELL_CLEANING_TAG)
                      /\ \E c \in 1..Len(item.compatibleWith) :
                             InList(item.compatibleWith[c], intent.categories))), 2))
    ELSE suggestions

\* Push the top candidate carrying one of the tags when the cart text holds
\* none of the keywords (needs_hdmi, a substring test on the same text, is
\* the case of the single keyword "hdmi")
PushUnlessInCart(cart_items, keywords, suggestions, candidates, tags) ==
    IF _has_accessory_keyword(cart_items, keywords) THEN suggestions
    ELSE PushAll(suggestions, TopTagged(candidates, tags))

PcPushes(cart_items, pc_candidates, suggestions) ==
    PushUnlessInCart(cart_items, << <<99, 104, 97, 114, 103, 101, 114>> (* "charger" *), <<99, 97, 114, 105, 99, 97, 116, 111, 114, 101>> (* "caricatore" *) >>,
        PushUnlessInCart(cart_items, << <<117, 115, 98, 45, 99>> (* "usb-c" *), <<117, 115, 98, 32, 99>> (* "usb c" *) >>,
            suggestions, pc_candidates, << <<117, 115, 98, 45, 99>> (* "usb-c" *) >>),
        pc_candidates, << <<99, 104, 97, 114, 103, 101, 114>> (* "charger" *) >>)

\* Pass b: one USB-C item and one charger, unless the cart mentions them
PcPass(intent, cart_items, eligible, suggestions) ==
    IF InList(PC, intent.categories)
    THEN PcPushes(cart_items,
                  SelectSeq(eligible, LAMBDA item : InList(PC, item.compatibleWith)),
                  suggestions)
    ELSE suggestions

TvPushes(cart_items, tv_candidates, suggestions) ==
    PushUnlessInCart(cart_items,
        << <<108, 101, 100>> (* "led" *), <<108, 105, 103, 104, 116, 105, 110, 103>> (* "lighting" *), <<97, 109, 98, 105, 101, 110, 116>> (* "ambient" *), <<98, 97, 99, 107, 108, 105, 103, 104, 116>> (* "backlight" *), <<98, 97, 99, 107, 32, 108, 105, 103, 104, 116>> (* "back light" *) >>,
        PushUnlessInCart(cart_items,
            << <<115, 117, 112, 112, 111, 114, 116>> (* "support" *), <<115, 116, 97, 102, 102, 97>> (* "staffa" *), <<109, 111, 117, 110, 116>> (* "mount" *), <<98, 114, 97, 99, 107, 101, 116>> (* "bracket" *), <<115, 116, 97, 110, 100>> (* "stand" *) >>,
            PushAll(
                PushUnlessInCart(cart_items, << <<104, 100, 109, 105>> (* "hdmi" *) >>,
                    PushUnlessInCart(cart_items, << <<115, 117, 98, 119, 111, 111, 102, 101, 114>> (* "subwoofer" *) >>,
                        PushUnlessInCart(cart_items, << <<115, 111, 117, 110, 100, 98, 97, 114>> (* "soundbar" *) >>,
                            suggestions, tv_candidates, << CROSS_SELL_SOUNDBAR_TAG >>),
                        tv_candidates, << CROSS_SELL_SUBWOOFER_TAG >>),
                    tv_candidates, << <<104, 100, 109, 105>> (* "hdmi" *) >>),
                TopTagged(tv_candidates, << <<114, 101, 109, 111, 116, 101>> (* "remote" *) >>)),
            tv_candidates, << <<116, 118, 45, 109, 111, 117, 110, 116>> (* "tv-mount" *), <<115, 116, 97, 110, 100>> (* "stand" *), CROSS_SELL_MOUNT_TAG >>),
        tv_candidates, << CROSS_SELL_LED_TAG >>)

\* Pass c: soundbar, subwoofer, HDMI, remote, mount or stand, LED
TvPass(intent, cart_items, eligible, suggestions) ==
    IF InList(TV, intent.categories)
    THEN TvPushes(cart_items,
                  SelectSeq(eligible, LAMBDA item : InList(TV, item.compatibleWith)),
                  suggestions)
    ELSE suggestions

\* The composite score of the fallback pass
FallbackScore(item, intent) ==
    item.priority
    + (IF intent.has_screen_device /\ HasTag(item, CROSS_SELL_CLEANING_TAG) THEN 15 ELSE 0)
    + (IF HasTag(item, CROSS_SELL_SOUNDBAR_TAG) THEN 20 ELSE 0)
    + (IF HasTag(item, CROSS_SELL_SUBWOOFER_TAG) THEN 18 ELSE 0)
    + (IF HasTag(item, CROSS_SELL_LED_TAG) THEN 6 ELSE 0)
    + (IF InList(PC, intent.categories) /\ InList(PC, item.compatibleWith) THEN 10 ELSE 0)
    + (IF InList(TV, intent.categories) /\ InList(TV, item.compatibleWith) THEN 10 ELSE 0)
    + (IF HasTag(item, CROSS_SELL_POPULAR_TAG) THEN 4 ELSE 0)

\* A fallback pass that pushes the remaining items in catalog order
FallbackPass_catalog_order(intent, eligible, suggestions) ==
    PushAll(suggestions,
        SelectSeq(eligible, LAMBDA item :
            /\ item.sku # <<>>
            /\ item.sku \notin SkusOf(suggestions)
            /\ \/ intent.categories = <<>>
               \/ \E c \in 1..Len(item.compatibleWith) :
                      InList(item.compatibleWith[c], intent.categories)))

\* The fallback pass: the remaining compatible items by descending score
FallbackPass(intent, eligible, suggestions) ==
    LET score(item) == FallbackScore(item, intent)
    IN  PushAll(suggestions,
            SortDescending(
                SelectSeq(eligible, LAMBDA item :
                    /\ item.sku # <<>>
                    /\ item.sku \notin SkusOf(suggestions)
                    /\ \/ intent.categories = <<>>
                       \/ \E c \in 1..Len(item.compatibleWith) :
                              InList(item.compatibleWith[c], intent.categories)),
                score))

\* The four passes, on the intent computed once from the cart
Passes(intent, cart_items, eligible) ==
    FallbackPass(intent, eligible,
        TvPass(intent, cart_items, eligible,
            PcPass(intent, cart_items, eligible,
                CleaningPass(intent, eligible, <<>>))))

\* The list suggestions after the cleaning pass, after the PC pass, after the
\* TV pass and after the fallback pass
TraceFromTv(intent, eligible, suggestions) ==
    << suggestions, FallbackPass(intent, eligible, suggestions) >>

TraceFromPc(intent, cart_items, eligible, suggestions) ==
    << suggestions >>
    \o TraceFromTv(intent, eligible, TvPass(intent, cart_items, eligible, suggestions))

TraceFromCleaning(intent, cart_items, eligible, suggestions) ==
    << suggestions >>
    \o TraceFromPc(intent, cart_items, eligible,
                   PcPass(intent, cart_items, eligible, suggestions))

PassTrace(intent, cart_items, eligible) ==
    TraceFromCleaning(intent, cart_items, eligible, CleaningPass(intent, eligible, <<>>))

SuggestionTrace(cart_items, catalog) ==
    IF cart_items = <<>> \/ catalog = <<>> THEN <<>>
    ELSE PassTrace(_get_cart_category_intent(cart_items), cart_items,
                   Eligible(cart_items, catalog))

\* The suggestions before the cap
AllSuggestions(cart_items, eligible) ==
    Passes(_get_cart_category_intent(cart_items), cart_items, eligible)

\* The recommender without the final cap
_get_cross_sell_suggestions_uncapped(cart_items, catalog, max_results) ==
    IF cart_items = <<>> \/ catalog = <<>> THEN <<>>
    ELSE AllSuggestions(cart_items, Eligible(cart_items, catalog))

\* The recommender with the names of the cart items not compared
_get_cross_sell_suggestions_ignoring_names(cart_items, catalog, max_results) ==
    IF cart_items = <<>> \/ catalog = <<>> THEN <<>>
    ELSE Take(AllSuggestions(cart_items, EligibleIgnoringNames(cart_items, catalog)),
              max_results)

_get_cross_sell_suggestions(cart_items, catalog, max_results) ==
    IF cart_items = <<>> \/ catalog = <<>> THEN <<>>
    ELSE Take(AllSuggestions(cart_items, Eligible(cart_items, catalog)), max_results)

(***************************************************************************)
(* The recommender over the live catalog                                   *)
(***************************************************************************)
\* lookup[key]: the last product written under the key (its id or its name)
LookupKeys(product) ==
    (IF product.id # <<>> THEN {_normalize_text(product.id)} ELSE {})
    \cup (IF product.name # <<>> THEN {_normalize_text(product.name)} ELSE {})

InLookup(key, products) == \E k \in 1..Len(products) : key \in LookupKeys(products[k])

Lookup(key, products) ==
    LET hits == {k \in 1..Len(products) : key \in LookupKeys(products[k])}
    IN  products[CHOOSE k \in hits : \A j \in hits : j <= k]

RECURSIVE _resolve_cart_products(_, _)
_resolve_cart_products(cart_items, products) ==
    IF cart_items = <<>> \/ products = <<>> THEN <<>>
    ELSE LET item == Head(cart_items)
             byId == _normalize_text(item.id)
             byName == _normalize_text(item.name)
             found == IF InLookup(byId, products) THEN << Lookup(byId, products) >>
                      ELSE IF InLookup(byName, products)
                           THEN << Lookup(byName, products) >>
                      ELSE <<>>
         IN found \o _resolve_cart_products(Tail(cart_items), products)

CartTvWords == << <<116, 118>> (* "tv" *), <<116, 101, 108, 101, 118, 105, 115>> (* "televis" *) >>
CartPcWords == << <<108, 97, 112, 116, 111, 112>> (* "laptop" *), <<99, 111, 109, 112, 117, 116, 101, 114>> (* "computer" *), <<100, 101, 115, 107, 116, 111, 112>> (* "desktop" *), <<110, 111, 116, 101, 98, 111, 111, 107>> (* "notebook" *), <<112, 99>> (* "pc" *) >>

ProductsIntent(normalized_categories, normalized_names) ==
    CategoryList(AnyIn(CartPcWords, normalized_categories),
                 AnyIn(CartTvWords, normalized_categories),
                 AnyIn(CROSS_SELL_AUDIO_KEYWORDS, normalized_names),
                 AnyIn(CROSS_SELL_LED_KEYWORDS, normalized_names))

_detect_cart_intent_from_products(cart_products) ==
    IF cart_products = <<>> THEN [categories |-> <<>>, has_screen_device |-> FALSE]
    ELSE ProductsIntent(
             _normalize_text(Join(
                 [i \in 1..Len(cart_products) |->
                     Join(_extract_product_categories(cart_products[i]), Space)], Space)),
             _normalize_text(Join(
                 [i \in 1..Len(cart_products) |-> NameOf(cart_products[i])], Space)))

MapPcWords == << <<99, 111, 109, 112, 117, 116, 101, 114>> (* "computer" *), <<108, 97, 112, 116, 111, 112>> (* "laptop" *), <<100, 101, 115, 107, 116, 111, 112>> (* "desktop" *), <<112, 99>> (* "pc" *) >>

\* normalized_categories of a product: its categories joined by spaces
NormalizedCategories(product) ==
    _normalize_text(Join(_extract_product_categories(product), Space))

\* normalized_text of a product: its normalized name and categories
NormalizedText(product) ==
    _normalize_text(_normalize_text(NameOf(product)) \o Space
                    \o NormalizedCategories(product))

TagIf(condition, tag) == IF condition THEN <<tag>> ELSE <<>>

MapTags(normalized_categories, normalized_text) ==
    TagIf(AnyIn(<< <<112, 97, 110, 110, 111>> (* "panno" *), <<99, 108, 101, 97, 110>> (* "clean" *) >>, normalized_categories), CROSS_SELL_CLEANING_TAG)
    \o TagIf(AnyIn(<< <<99, 97, 118, 105>> (* "cavi" *), <<104, 100, 109, 105>> (* "hdmi" *) >>, normalized_categories), CROSS_SELL_POPULAR_TAG)
    \o TagIf(AnyIn(<< <<116, 101, 108, 101, 99, 111, 109, 97, 110, 100>> (* "telecomand" *), <<99, 97, 114, 105, 99>> (* "caric" *) >>, normalized_categories),
             CROSS_SELL_RECOMMENDED_TAG)
    \o TagIf(Contains(normalized_text, <<115, 111, 117, 110, 100, 98, 97, 114>> (* "soundbar" *)), CROSS_SELL_SOUNDBAR_TAG)
    \o TagIf(Contains(normalized_text, <<115, 117, 98, 119, 111, 111, 102, 101, 114>> (* "subwoofer" *)), CROSS_SELL_SUBWOOFER_TAG)
    \o TagIf(AnyIn(CROSS_SELL_LED_KEYWORDS, normalized_text), CROSS_SELL_LED_TAG)
    \o TagIf(AnyIn(CROSS_SELL_MOUNT_KEYWORDS, normalized_text), CROSS_SELL_MOUNT_TAG)

MapTvTags ==
    << CROSS_SELL_SOUNDBAR_TAG, CROSS_SELL_SUBWOOFER_TAG, CROSS_SELL_LED_TAG,
       CROSS_SELL_MOUNT_TAG >>

MapTvWords == << <<116, 118>> (* "tv" *), <<116, 101, 108, 101, 118, 105, 115>> (* "televis" *) >>

\* compatibleWith: tv by category, pc by category, tv by tag when not yet tv
MapCompatibleWith(normalized_categories, tags) ==
    TagIf(AnyIn(MapTvWords, normalized_categories), TV)
    \o TagIf(AnyIn(MapPcWords, normalized_categories), PC)
    \o TagIf(/\ \E t \in 1..Len(MapTvTags) : InList(MapTvTags[t], tags)
             /\ ~AnyIn(MapTvWords, normalized_categories), TV)

MapPriority(normalized_categories, tags) ==
    IF InList(CROSS_SELL_CLEANING_TAG, tags) THEN 90
    ELSE IF InList(CROSS_SELL_SOUNDBAR_TAG, tags) THEN 88
    ELSE IF InList(CROSS_SELL_SUBWOOFER_TAG, tags) THEN 86
    ELSE IF InList(CROSS_SELL_MOUNT_TAG, tags) THEN 82
    ELSE IF InList(CROSS_SELL_LED_TAG, tags) THEN 80
    ELSE IF Contains(normalized_categories, <<99, 97, 118, 105>> (* "cavi" *)) THEN 82
    ELSE IF Contains(normalized_categories, <<116, 101, 108, 101, 99, 111, 109, 97, 110, 100>> (* "telecomand" *)) THEN 78
    ELSE IF Contains(normalized_categories, <<99, 97, 114, 105, 99>> (* "caric" *)) THEN 76
    ELSE 60

MapItem(product, normalized_categories, tags) ==
    Item(product.id, product.id, NameOf(product), _extract_price_from_product(product),
         tags, MapCompatibleWith(normalized_categories, tags),
         MapPriority(normalized_categories, tags))

\* The image URL and the echoed categories of the mapped item take no part
\* in the choice of the suggestions and are left out.
_map_product_to_cross_sell_item(product) ==
    MapItem(product, NormalizedCategories(product),
            MapTags(NormalizedCategories(product), NormalizedText(product)))

DbTvKeywords ==
    << <<99, 97, 118, 105, 32, 112, 101, 114, 32, 116, 118>> (* "cavi per tv" *), <<116, 101, 108, 101, 99, 111, 109, 97, 110, 100, 105, 32, 112, 101, 114, 32, 116, 118>> (* "telecomandi per tv" *), <<112, 97, 110, 110, 111, 32, 112, 101, 114, 32, 116, 118>> (* "panno per tv" *), <<115, 116, 97, 102, 102>> (* "staff" *), <<115, 117, 112, 112, 111, 114, 116>> (* "support" *) >>

DbPcKeywords ==
    << <<99, 97, 118, 105, 32, 112, 101, 114, 32, 99, 111, 109, 112, 117, 116, 101, 114>> (* "cavi per computer" *), <<112, 97, 110, 110, 111, 32, 112, 101, 114, 32, 99, 111, 109, 112, 117, 116, 101, 114>> (* "panno per computer" *), <<99, 97, 114, 105, 99>> (* "caric" *), <<97, 108, 105, 109, 101, 110, 116, 97, 116, 111, 114, 101>> (* "alimentatore" *),
       <<97, 100, 97, 116, 116, 97, 116, 111, 114, 101>> (* "adattatore" *), <<104, 117, 98>> (* "hub" *), <<97, 99, 99, 101, 115, 115, 111, 114, 105>> (* "accessori" *) >>

AccessoryText(normalized_text, categories) ==
    \/ InList(TV, categories) /\ AnyIn(DbTvKeywords, normalized_text)
    \/ InList(PC, categories) /\ AnyIn(DbPcKeywords, normalized_text)
    \/ /\ InList(TV, categories)
       /\ AnyIn(CROSS_SELL_AUDIO_KEYWORDS \o CROSS_SELL_LED_KEYWORDS
                    \o CROSS_SELL_MOUNT_KEYWORDS, normalized_text)
    \/ /\ InList(AUDIO, categories)
       /\ AnyIn(CROSS_SELL_AUDIO_KEYWORDS \o CROSS_SELL_MOUNT_KEYWORDS, normalized_text)

\* Is the product an accessory for one of the detected classes?
IsAccessoryFor(product, categories) == AccessoryText(NormalizedText(product), categories)

MappedAccessories(products, categories) ==
    MapSeq(SelectSeq(products, LAMBDA p : IsAccessoryFor(p, categories)),
           _map_product_to_cross_sell_item)

\* The accessory catalog derived from the live products, for the intent of
\* the cart
DbCatalog(intent, products) ==
    SelectSeq(MappedAccessories(products, intent.categories),
              LAMBDA item : item.price > 0 /\ item.name # <<>>)

\* The suggestions for the intent: with a screen device only items with a SKU
DbSuggestions(intent, suggestions, max_results) ==
    Take(IF intent.has_screen_device
         THEN SelectSeq(suggestions, LAMBDA item : item.sku # <<>>)
         ELSE suggestions,
         max_results)

DbSuggestionsFor(intent, cart_items, products, max_results) ==
    DbSuggestions(intent,
                  _get_cross_sell_suggestions(cart_items, DbCatalog(intent, products),
                                              max_results),
                  max_results)

_get_cross_sell_suggestions_from_db(cart_items, products, max_results) ==
    IF cart_items = <<>> \/ products = <<>> THEN <<>>
    ELSE DbSuggestionsFor(
             _detect_cart_intent_from_products(_resolve_cart_products(cart_items, products)),
             cart_items, products, max_results)
(***************************************************************************)
(* The recommender applied to a cart: over a catalog of accessory items    *)
(* (the static fallback catalog among them) and over the live products.    *)
(***************************************************************************)
\* Bound: number of items in the cart
MaxCartItems == 2

CartPool ==
    { CartItem(<<116, 118, 45, 49>> (* "tv-1" *), <<83, 109, 97, 114, 116, 32, 84, 86, 32, 79, 76, 69, 68, 32, 53, 53>> (* "Smart TV OLED 55" *), <<>>, <<>>, <<84, 86>> (* "TV" *)),
      CartItem(<<108, 97, 112, 45, 49>> (* "lap-1" *), <<76, 97, 112, 116, 111, 112, 32, 80, 114, 111>> (* "Laptop Pro" *), <<119, 105, 116, 104, 32, 85, 83, 66, 45, 67, 32, 99, 104, 97, 114, 103, 101, 114>> (* "with USB-C charger" *), << <<119, 111, 114, 107>> (* "work" *) >>, <<>>),
      CartItem(<<120, 45, 57>> (* "x-9" *), <<67, 65, 86, 79, 32, 72, 68, 77, 73, 32, 50, 46, 49, 32, 97, 100, 32, 97, 108, 116, 97, 32, 118, 101, 108, 111, 99, 105, 116, 97>> (* "CAVO HDMI 2.1 ad alta velocita" *), <<>>, <<>>, <<>>),
      CartItem(<<99, 115, 32, 99, 108, 101, 97, 110, 32, 99, 108, 111, 116, 104, 32, 48, 49>> (* "cs clean cloth 01" *), <<67, 108, 111, 116, 104>> (* "Cloth" *), <<>>, <<>>, <<>>),
      CartItem(<<115, 98, 45, 49>> (* "sb-1" *), <<83, 111, 117, 110, 100, 98, 97, 114, 32, 50, 46, 49>> (* "Soundbar 2.1" *), <<>>, << <<97, 117, 100, 105, 111>> (* "audio" *) >>, <<>>),
      CartItem(<<98, 107, 45, 55>> (* "bk-7" *), <<67, 111, 111, 107, 98, 111, 111, 107>> (* "Cookbook" *), <<>>, <<>>, <<>>) }

\* Items a catalog may hold beside the static ones: a second item under a
\* static SKU, an item without SKU, an item whose id differs from its SKU
ExtraItems ==
    << Item(<<100, 117, 112, 45, 104, 100, 109, 105>> (* "dup-hdmi" *), <<67, 83, 45, 72, 68, 77, 73, 45, 48, 49>> (* "CS-HDMI-01" *), <<67, 97, 118, 111, 32, 72, 68, 77, 73, 32, 112, 114, 101, 109, 105, 117, 109>> (* "Cavo HDMI premium" *), 3990,
            << <<104, 100, 109, 105>> (* "hdmi" *) >>, << TV >>, 99),
       Item(<<110, 111, 45, 115, 107, 117>> (* "no-sku" *), <<>>, <<83, 101, 110, 122, 97, 32, 99, 111, 100, 105, 99, 101>> (* "Senza codice" *), 100, << CROSS_SELL_POPULAR_TAG >>,
            << PC, TV >>, 99),
       Item(<<83, 66, 45, 49>> (* "SB-1" *), <<83, 75, 85, 45, 55, 55>> (* "SKU-77" *), <<83, 111, 117, 110, 100, 98, 97, 114, 32, 99, 111, 109, 112, 97, 116, 116, 97>> (* "Soundbar compatta" *), 9900,
            << CROSS_SELL_SOUNDBAR_TAG >>, << TV >>, 88),
       Item(<<115, 119, 45, 50>> (* "sw-2" *), <<83, 87, 45, 50>> (* "SW-2" *), <<83, 117, 98, 119, 111, 111, 102, 101, 114>> (* "Subwoofer" *), 8900,
            << CROSS_SELL_SUBWOOFER_TAG >>, << TV >>, 86),
       Item(<<108, 101, 100, 45, 51>> (* "led-3" *), <<76, 69, 68, 45, 51>> (* "LED-3" *), <<83, 116, 114, 105, 115, 99, 105, 97, 32, 76, 69, 68>> (* "Striscia LED" *), 1500,
            << CROSS_SELL_LED_TAG >>, << TV >>, 80) >>

ItemCatalogs ==
    { <<>>, CROSS_SELL_FALLBACK_CATALOG, ExtraItems \o CROSS_SELL_FALLBACK_CATALOG }

DbProducts ==
    << Product(<<116, 118, 45, 49>> (* "tv-1" *), <<83, 109, 97, 114, 116, 32, 84, 86, 32, 79, 76, 69, 68, 32, 53, 53>> (* "Smart TV OLED 55" *), Some(50000), CatList(<< <<84, 86>> (* "TV" *) >>), CatNone, <<>>),
       Product(<<104, 100, 45, 49>> (* "hd-1" *), <<67, 97, 118, 111, 32, 72, 68, 77, 73, 32, 50, 46, 49, 32, 97, 100, 32, 97, 108, 116, 97, 32, 118, 101, 108, 111, 99, 105, 116, 97>> (* "Cavo HDMI 2.1 ad alta velocita" *), Some(1000), CatNone,
               CatStr(<<67, 97, 118, 105, 32, 112, 101, 114, 32, 84, 86>> (* "Cavi per TV" *)), <<>>),
       Product(<<115, 98, 45, 49>> (* "sb-1" *), <<83, 111, 117, 110, 100, 98, 97, 114, 32, 50, 46, 49>> (* "Soundbar 2.1" *), Some(10000), CatList(<< <<65, 117, 100, 105, 111>> (* "Audio" *) >>), CatNone, <<>>),
       Product(<<112, 110, 45, 49>> (* "pn-1" *), <<80, 97, 110, 110, 111>> (* "Panno" *), Some(500), CatList(<< <<80, 97, 110, 110, 111, 32, 112, 101, 114, 32, 84, 86>> (* "Panno per TV" *) >>), CatNone, <<>>),
       Product(<<108, 97, 112, 45, 49>> (* "lap-1" *), <<76, 97, 112, 116, 111, 112, 32, 80, 114, 111>> (* "Laptop Pro" *), Some(90000), CatList(<< <<76, 97, 112, 116, 111, 112>> (* "Laptop" *) >>), CatNone, <<>>),
       Product(<<99, 104, 45, 49>> (* "ch-1" *), <<67, 97, 114, 105, 99, 97, 116, 111, 114, 101>> (* "Caricatore" *), Some(2000), CatNone,
               CatStr(<<67, 97, 114, 105, 99, 97, 116, 111, 114, 105, 32, 112, 101, 114, 32, 99, 111, 109, 112, 117, 116, 101, 114>> (* "Caricatori per computer" *)), <<>>),
       Product(<<115, 116, 45, 49>> (* "st-1" *), <<83, 116, 97, 102, 102, 97, 32, 84, 86>> (* "Staffa TV" *), Some(0), CatList(<< <<83, 117, 112, 112, 111, 114, 116, 105, 32, 84, 86>> (* "Supporti TV" *) >>), CatNone, <<>>),
       Product(<<115, 119, 45, 49>> (* "sw-1" *), <<83, 117, 98, 119, 111, 111, 102, 101, 114, 32, 97, 116, 116, 105, 118, 111>> (* "Subwoofer attivo" *), Some(8000), CatList(<< <<65, 117, 100, 105, 111>> (* "Audio" *) >>), CatNone, <<>>),
       Product(<<116, 108, 45, 49>> (* "tl-1" *), <<84, 101, 108, 101, 99, 111, 109, 97, 110, 100, 111>> (* "Telecomando" *), None, CatList(<< <<84, 101, 108, 101, 99, 111, 109, 97, 110, 100, 105, 32, 112, 101, 114, 32, 84, 86>> (* "Telecomandi per TV" *) >>),
               CatNone, <<>>) >>

Reverse(s) == [i \in 1..Len(s) |-> s[Len(s) + 1 - i]]

ProductCatalogs == { <<>>, DbProducts, Reverse(DbProducts) }

CrossInit ==
    /\ cCart \in SeqsUpTo(CartPool, MaxCartItems)
    /\ cMax \in 1..8
    /\ \/ cpc = "items" /\ cCatalog \in ItemCatalogs
       \/ cpc = "products" /\ cCatalog \in ProductCatalogs
    /\ cResult = <<>>
    /\ cTrace = <<>>

CrossIdle ==
    /\ cpc = "off" /\ cCart = <<>> /\ cCatalog = <<>> /\ cMax = 1 /\ cResult = <<>>
    /\ cTrace = <<>>

\* _get_cross_sell_suggestions(cart_items, catalog, max_results); cTrace
\* records the list suggestions after each of the four passes
CrossSell ==
    /\ cpc = "items"
    /\ cResult' = _get_cross_sell_suggestions(cCart, cCatalog, cMax)
    /\ cTrace' = SuggestionTrace(cCart, cCatalog)
    /\ cpc' = "suggested"
    /\ UNCHANGED <<cCart, cCatalog, cMax>>
    /\ UNCHANGED <<filterVars, rankVars, bundleVars, minorVars, toolVars, duckVars>>

\* _get_cross_sell_suggestions_from_db(cart_items, products, max_results)
CrossSellFromDb ==
    /\ cpc = "products"
    /\ cResult' = _get_cross_sell_suggestions_from_db(cCart, cCatalog, cMax)
    /\ cpc' = "suggested_from_db"
    /\ UNCHANGED <<cCart, cCatalog, cMax, cTrace>>
    /\ UNCHANGED <<filterVars, rankVars, bundleVars, minorVars, toolVars, duckVars>>

CrossNext == CrossSell \/ CrossSellFromDb

CrossDone == cpc \in {"suggested", "suggested_from_db"}

\* The catalog of items the suggestions were chosen from
CandidateCatalog ==
    IF cpc = "suggested_from_db"
    THEN DbCatalog(_detect_cart_intent_from_products(_resolve_cart_products(cCart, cCatalog)),
                   cCatalog)
    ELSE cCatalog

\* Is the catalog item in the cart, by SKU, by id or by name?
InCart(item, cart_items) ==
    \E i \in 1..Len(cart_items) :
        \/ _normalize_text(item.sku) = _normalize_text(cart_items[i].id)
        \/ _normalize_text(item.id) = _normalize_text(cart_items[i].id)
        \/ _normalize_text(item.name) = _normalize_text(cart_items[i].name)

\* C5: no returned suggestion has a normalized SKU or id equal to the
\* normalized id of a cart item, or a normalized name equal to the normalized
\* name of a cart item, on the item-catalog path and on the live path alike.
C5_NoCartItemSuggested ==
    CrossDone => \A k \in 1..Len(cResult) : ~InCart(cResult[k], cCart)

\* A run whose catalog holds an item of the cart (matched by name only) and
\* that still returned suggestions.
C5_Witness ==
    /\ CrossDone
    /\ cResult # <<>>
    /\ \E k \in 1..Len(CandidateCatalog) : \E i \in 1..Len(cCart) :
           /\ _normalize_text(CandidateCatalog[k].name) = _normalize_text(cCart[i].name)
           /\ _normalize_text(CandidateCatalog[k].sku) # _normalize_text(cCart[i].id)
           /\ CandidateCatalog[k].price > 0

\* C6: the returned list has at most max_results items (max_results in
\* 1..8), on both paths; with max_results = 1 at most one.
C6_AtMostMaxResults ==
    CrossDone => /\ Len(cResult) <= cMax
                 /\ (cMax = 1 => Len(cResult) <= 1)

\* A run in which more items were eligible than were asked for, so that the
\* cap cut the list.
C6_Witness ==
    /\ cpc = "suggested"
    /\ Len(cResult) = cMax
    /\ Len(_get_cross_sell_suggestions(cCart, cCatalog, 8)) > cMax


\* The items a pass added: those of the list after it behind the list before
Added(before, after) == SubSeq(after, Len(before) + 1, Len(after))

IsPrefix(s, t) == Len(s) <= Len(t) /\ SubSeq(t, 1, Len(s)) = s

\* The items are tagged for stages of the list, taken in the list's order,
\* no stage more than once: stages is a list of tag lists
InStageOrder(items, stages) ==
    \E place \in [1..Len(items) -> 1..Len(stages)] :
        /\ \A i, j \in 1..Len(items) : i < j => place[i] < place[j]
        /\ \A i \in 1..Len(items) :
               \E t \in 1..Len(stages[place[i]]) : HasTag(items[i], stages[place[i]][t])

PcStages == << << <<117, 115, 98, 45, 99>> (* "usb-c" *) >>, << <<99, 104, 97, 114, 103, 101, 114>> (* "charger" *) >> >>

TvStages ==
    << << CROSS_SELL_SOUNDBAR_TAG >>, << CROSS_SELL_SUBWOOFER_TAG >>, << <<104, 100, 109, 105>> (* "hdmi" *) >>,
       << <<114, 101, 109, 111, 116, 101>> (* "remote" *) >>, << <<116, 118, 45, 109, 111, 117, 110, 116>> (* "tv-mount" *), <<115, 116, 97, 110, 100>> (* "stand" *), CROSS_SELL_MOUNT_TAG >>,
       << CROSS_SELL_LED_TAG >> >>

CartIntent == _get_cart_category_intent(cCart)

Traced == cpc = "suggested" /\ cTrace # <<>>

\* C18: the returned list holds the items of the directed passes first, in
\* the order cleaning (at most 2), PC (USB-C, charger), TV (soundbar,
\* subwoofer, HDMI, remote, mount or stand, LED), then the items of the
\* fallback pass in non-increasing order of composite score; no SKU occurs
\* twice.
C18_PassOrder ==
    Traced =>
        /\ IsPrefix(cTrace[1], cTrace[2])
        /\ IsPrefix(cTrace[2], cTrace[3])
        /\ IsPrefix(cTrace[3], cTrace[4])
        /\ cResult = Take(cTrace[4], cMax)
        /\ Len(cTrace[1]) <= 2
        /\ \A i \in 1..Len(cTrace[1]) : HasTag(cTrace[1][i], CROSS_SELL_CLEANING_TAG)
        /\ InStageOrder(Added(cTrace[1], cTrace[2]), PcStages)
        /\ InStageOrder(Added(cTrace[2], cTrace[3]), TvStages)
        /\ \A fallback \in {Added(cTrace[3], cTrace[4])} :
               \A i, j \in 1..Len(fallback) : i < j =>
                   FallbackScore(fallback[i], CartIntent)
                       >= FallbackScore(fallback[j], CartIntent)
        /\ \A i, j \in 1..Len(cResult) : i # j => cResult[i].sku # cResult[j].sku

\* A run in which the cleaning pass, the TV pass and the fallback pass each
\* added items, the fallback pass two of different score, and all of them
\* were returned.
C18_Witness ==
    /\ Traced
    /\ cTrace[1] # <<>>
    /\ Len(Added(cTrace[2], cTrace[3])) >= 2
    /\ \E fallback \in {Added(cTrace[3], cTrace[4])} :
           /\ Len(fallback) >= 2
           /\ FallbackScore(fallback[1], CartIntent)
                  > FallbackScore(fallback[Len(fallback)], CartIntent)
    /\ cResult = cTrace[4]

\* The accessory needs of a TV cart and of a PC cart: the words that tell
\* that the cart covers the need, and the tags of the items that serve it
TvNeeds ==
    << [words |-> << <<115, 111, 117, 110, 100, 98, 97, 114>> (* "soundbar" *) >>, tags |-> << CROSS_SELL_SOUNDBAR_TAG >>],
       [words |-> << <<115, 117, 98, 119, 111, 111, 102, 101, 114>> (* "subwoofer" *) >>, tags |-> << CROSS_SELL_SUBWOOFER_TAG >>],
       [words |-> << <<104, 100, 109, 105>> (* "hdmi" *) >>, tags |-> << <<104, 100, 109, 105>> (* "hdmi" *) >>],
       [words |-> << <<115, 117, 112, 112, 111, 114, 116>> (* "support" *), <<115, 116, 97, 102, 102, 97>> (* "staffa" *), <<109, 111, 117, 110, 116>> (* "mount" *), <<98, 114, 97, 99, 107, 101, 116>> (* "bracket" *), <<115, 116, 97, 110, 100>> (* "stand" *) >>,
        tags |-> << <<116, 118, 45, 109, 111, 117, 110, 116>> (* "tv-mount" *), <<115, 116, 97, 110, 100>> (* "stand" *), CROSS_SELL_MOUNT_TAG >>],
       [words |-> << <<108, 101, 100>> (* "led" *), <<108, 105, 103, 104, 116, 105, 110, 103>> (* "lighting" *), <<97, 109, 98, 105, 101, 110, 116>> (* "ambient" *), <<98, 97, 99, 107, 108, 105, 103, 104, 116>> (* "backlight" *), <<98, 97, 99, 107, 32, 108, 105, 103, 104, 116>> (* "back light" *) >>,
        tags |-> << CROSS_SELL_LED_TAG >>] >>

PcNeeds ==
    << [words |-> << <<117, 115, 98, 45, 99>> (* "usb-c" *), <<117, 115, 98, 32, 99>> (* "usb c" *) >>, tags |-> << <<117, 115, 98, 45, 99>> (* "usb-c" *) >>],
       [words |-> << <<99, 104, 97, 114, 103, 101, 114>> (* "charger" *), <<99, 97, 114, 105, 99, 97, 116, 111, 114, 101>> (* "caricatore" *) >>, tags |-> << <<99, 104, 97, 114, 103, 101, 114>> (* "charger" *) >>] >>

\* No item of the list carries a tag of a need the cart already covers
NoCoveredNeed(items, needs) ==
    \A n \in 1..Len(needs) :
        _has_accessory_keyword(cCart, needs[n].words) =>
            \A i \in 1..Len(items) : \A t \in 1..Len(needs[n].tags) :
                ~HasTag(items[i], needs[n].tags[t])

\* C19: for a cart with TV intent whose text mentions an accessory need
\* (soundbar, subwoofer, HDMI, mount or stand, LED lighting) the returned
\* list holds no item tagged for that need; likewise for a cart with PC
\* intent that mentions USB-C or a charger.
C19_NoCoveredNeedReturned ==
    cpc = "suggested" =>
        /\ InList(TV, CartIntent.categories) => NoCoveredNeed(cResult, TvNeeds)
        /\ InList(PC, CartIntent.categories) => NoCoveredNeed(cResult, PcNeeds)

\* What holds: the directed passes add no item for a need the cart covers
C19_DirectedPassesSkipCoveredNeeds ==
    Traced =>
        /\ InList(TV, CartIntent.categories) =>
               NoCoveredNeed(Added(cTrace[2], cTrace[3]), TvNeeds)
        /\ InList(PC, CartIntent.categories) =>
               NoCoveredNeed(Added(cTrace[1], cTrace[2]), PcNeeds)
(***************************************************************************)
(* Solution bundle builder                                                 *)
(***************************************************************************)
LowerStripKeywords(keywords) ==
    LET kept == SelectSeq(keywords, LAMBDA kw : kw # <<>>)
    IN  [i \in 1..Len(kept) |-> Strip(Lower(kept[i]))]

_filter_products_by_name_keywords(products, keywords) ==
    IF products = <<>> \/ keywords = <<>> THEN <<>>
    ELSE SelectSeq(products, LAMBDA product :
             LET name == _normalize_text(NameOf(product))
             IN  name # <<>> /\ AnyIn(LowerStripKeywords(keywords), name))

\* Python's "a or b" on lists
OrElse(a, b) == IF a # <<>> THEN a ELSE b

\* The candidates that are not accessories, or all of them when none is left
WithoutAccessories(candidates, accessory_exclusions) ==
    IF candidates = <<>> \/ accessory_exclusions = <<>> THEN candidates
    ELSE OrElse(SelectSeq(candidates, LAMBDA product :
                    ~_is_accessory_product(product,
                                           LowerStripKeywords(accessory_exclusions))),
                candidates)

\* accessory_exclusions is the empty list when the exclusion is not asked for
_filter_products_for_bundle(products, include_keywords, accessory_exclusions) ==
    WithoutAccessories(_filter_products_by_name_keywords(products, include_keywords),
                       accessory_exclusions)

\* The sort key "price if price > 0 else infinity": is a before b?
PriceBefore(a, b) ==
    LET pa == _extract_price_from_product(a)
        pb == _extract_price_from_product(b)
    IN  pa > 0 /\ (pb <= 0 \/ pa < pb)

\* list.sort(key=...): stable, ascending in the order Before
SortBy(items, Before(_, _)) ==
    LET n == Len(items)
        place(i) == 1 + Cardinality({j \in 1..n :
                        \/ Before(items[j], items[i])
                        \/ ~Before(items[i], items[j]) /\ j < i})
    IN  [p \in 1..n |-> items[CHOOSE i \in 1..n : place(i) = p]]

LOW == <<108, 111, 119>> (* "low" *)
HIGH == <<104, 105, 103, 104>> (* "high" *)

\* The products in their input order
_sort_products_by_price_unsorted(products, preference) ==
    products

\* preference is the empty string when absent
_sort_products_by_price(products, preference) ==
    LET pref == Lower(IF preference = <<>> THEN LOW ELSE preference)
        scored == SortBy(products, PriceBefore)
    IN  IF products = <<>> THEN <<>>
        ELSE IF pref = HIGH THEN Reverse(scored)
        ELSE scored

\* The loop over the sorted products: a product whose id was seen is
\* skipped, a product without id never is
RECURSIVE SelectLoop(_, _, _, _)
SelectLoop(sorted_products, limit, seen_ids, selected) ==
    IF sorted_products = <<>> \/ Len(selected) >= limit
    THEN [selected |-> selected, seen_ids |-> seen_ids]
    ELSE LET product == Head(sorted_products)
         IN  IF product.id # <<>> /\ product.id \in seen_ids
             THEN SelectLoop(Tail(sorted_products), limit, seen_ids, selected)
             ELSE SelectLoop(Tail(sorted_products), limit,
                             IF product.id # <<>> THEN seen_ids \cup {product.id}
                             ELSE seen_ids,
                             Append(selected, product))

\* Returns the selected products and the updated set of seen ids
_select_products_by_price(products, preference, limit, seen_ids) ==
    IF products = <<>> \/ limit <= 0 THEN [selected |-> <<>>, seen_ids |-> seen_ids]
    ELSE SelectLoop(_sort_products_by_price(products, preference), limit, seen_ids, <<>>)

\* selections: keywords, label, limit (the accessory exclusion is on for all)
BundleSelections ==
    << [keywords |-> CROSS_SELL_TV_KEYWORDS, label |-> "tv", limit |-> 2],
       [keywords |-> SOLUTION_BUNDLE_SOUNDBAR_KEYWORDS, label |-> "soundbar", limit |-> 2],
       [keywords |-> SOLUTION_BUNDLE_SUBWOOFER_KEYWORDS, label |-> "subwoofer", limit |-> 1],
       [keywords |-> CROSS_SELL_LED_KEYWORDS, label |-> "led", limit |-> 1] >>

RECURSIVE BundleSlots(_, _, _, _)

\* The slot k with its pick, and the slots behind it
SlotPicked(products, price_preference, k, seen_ids, candidates, pick) ==
    << [label |-> BundleSelections[k].label, candidates |-> candidates,
        seen_before |-> seen_ids, chosen |-> pick.selected] >>
    \o BundleSlots(products, price_preference, k + 1, pick.seen_ids)

SlotFrom(products, price_preference, k, seen_ids, candidates) ==
    SlotPicked(products, price_preference, k, seen_ids, candidates,
               _select_products_by_price(candidates, price_preference,
                                         BundleSelections[k].limit, seen_ids))

\* The slots in order: for each its candidates, the ids seen before it and
\* the items chosen for it
BundleSlots(products, price_preference, k, seen_ids) ==
    IF k > Len(BundleSelections) THEN <<>>
    ELSE SlotFrom(products, price_preference, k, seen_ids,
                  _filter_products_for_bundle(products, BundleSelections[k].keywords,
                                              BUNDLE_ACCESSORY_EXCLUDE_KEYWORDS))

RECURSIVE ChosenOf(_)
ChosenOf(slots) ==
    IF slots = <<>> THEN <<>> ELSE Head(slots).chosen \o ChosenOf(Tail(slots))

_build_solution_bundle_catalog(products, price_preference) ==
    IF products = <<>> THEN <<>>
    ELSE ChosenOf(BundleSlots(products, price_preference, 1, {}))

(***************************************************************************)
(* The bundle builder applied to a product list and a price preference.    *)
(***************************************************************************)
\* Bound: length of the product lists
MaxBundleProducts == 3

BundlePool ==
    { Product(<<116, 49>> (* "t1" *), <<83, 109, 97, 114, 116, 32, 84, 86, 32, 53, 53>> (* "Smart TV 55" *), Some(500), CatList(<< <<84, 86>> (* "TV" *) >>), CatNone, <<>>),
      Product(<<116, 50>> (* "t2" *), <<79, 76, 69, 68, 32, 84, 86, 32, 54, 53>> (* "OLED TV 65" *), Some(300), CatList(<< <<84, 86>> (* "TV" *) >>), CatNone, <<>>),
      Product(<<116, 51>> (* "t3" *), <<84, 101, 108, 101, 118, 105, 115, 111, 114, 101, 32, 51, 50>> (* "Televisore 32" *), None, CatNone, CatNone, <<>>),
      Product(<<115, 51>> (* "s3" *), <<83, 111, 117, 110, 100, 98, 97, 114, 32, 84, 86>> (* "Soundbar TV" *), Some(80), CatNone, CatStr(<<65, 117, 100, 105, 111>> (* "Audio" *)), <<>>),
      Product(<<115, 50>> (* "s2" *), <<83, 111, 117, 110, 100, 98, 97, 114, 32, 99, 111, 110, 32, 115, 117, 98, 119, 111, 111, 102, 101, 114>> (* "Soundbar con subwoofer" *), Some(200), CatNone, CatNone, <<>>),
      Product(<<119, 49>> (* "w1" *), <<83, 117, 98, 119, 111, 111, 102, 101, 114, 32, 97, 116, 116, 105, 118, 111>> (* "Subwoofer attivo" *), Some(150), CatNone, CatNone, <<>>),
      Product(<<108, 49>> (* "l1" *), <<83, 116, 114, 105, 115, 99, 105, 97, 32, 76, 69, 68>> (* "Striscia LED" *), Some(15), CatNone, CatNone, <<>>),
      Product(<<>> (* "" *), <<84, 86, 32, 66, 111, 120>> (* "TV Box" *), Some(50), CatNone, CatNone, <<>>) }

BundlePreferences == { LOW, HIGH, <<>> (* "" *) }

BundleInit ==
    /\ bpc = "start"
    /\ bProducts \in SeqsUpTo(BundlePool, MaxBundleProducts)
    /\ bPref \in BundlePreferences
    /\ bSlots = <<>>
    /\ bResult = <<>>

BundleIdle ==
    /\ bpc = "off" /\ bProducts = <<>> /\ bPref = <<>> /\ bSlots = <<>> /\ bResult = <<>>

\* _build_solution_bundle_catalog(products, price_preference); bSlots
\* records what the loop did in each slot
BuildBundle ==
    /\ bpc = "start"
    /\ bResult' = _build_solution_bundle_catalog(bProducts, bPref)
    /\ bSlots' = IF bProducts = <<>> THEN <<>> ELSE BundleSlots(bProducts, bPref, 1, {})
    /\ bpc' = "built"
    /\ UNCHANGED <<bProducts, bPref>>
    /\ UNCHANGED <<filterVars, rankVars, crossVars, minorVars, toolVars, duckVars>>

BundleNext == BuildBundle

BuiltLow == bpc = "built" /\ bPref = LOW

PriceOf(product) == _extract_price_from_product(product)

AlreadyChosen(product, slot) == product.id # <<>> /\ product.id \in slot.seen_before

\* The products of the catalog whose name matches the slot's keywords
NameMatches(k) ==
    _filter_products_by_name_keywords(bProducts, BundleSelections[k].keywords)

IsAccessory(product) ==
    _is_accessory_product(product, LowerStripKeywords(BUNDLE_ACCESSORY_EXCLUDE_KEYWORDS))

SlotCandidates(k) ==
    OrElse(SelectSeq(NameMatches(k), LAMBDA p : ~IsAccessory(p)), NameMatches(k))

\* a is not dearer than b, a price that is not positive counting as infinite
NotDearer(a, b) == ~PriceBefore(b, a)

C17_BundleItemsPricedDistinctCapped ==
    (bpc = "built" /\ bPref \in {LOW, HIGH}) =>
        /\ \A i \in 1..Len(bResult) : PriceOf(bResult[i]) > 0
        /\ \A i, j \in 1..Len(bResult) : i # j => bResult[i].id # bResult[j].id
        /\ \A k \in 1..Len(bSlots) : Len(bSlots[k].chosen) <= BundleSelections[k].limit
        /\ Len(bResult) <= 6

\* What holds of the selection: the caps of the slots, and no id that is not
\* empty chosen twice
C17_CapsAndIds ==
    (bpc = "built" /\ bPref \in {LOW, HIGH}) =>
        /\ \A i, j \in 1..Len(bResult) :
               (i # j /\ bResult[i].id # <<>>) => bResult[i].id # bResult[j].id
        /\ \A k \in 1..Len(bSlots) : Len(bSlots[k].chosen) <= BundleSelections[k].limit
        /\ Len(bResult) <= 6
(***************************************************************************)
(* Tool invocation handler: _call_tool_request                             *)
(*                                                                         *)
(* A request names a tool and carries its arguments.  The collaborators    *)
(* (the product catalog, the payments processor, the prompt files) answer  *)
(* each call with one of their possible outcomes.                          *)
(***************************************************************************)
\* The arguments of a request.  wellFormed: the arguments have the types the
\* tool's input model asks for and no unknown field; the value constraints
\* of the input model are checked on the fields themselves.
NoArgs ==
    [wellFormed |-> TRUE, goal |-> <<>>, price_preference |-> LOW, cart_items |-> <<>>,
     max_results |-> 8, items |-> None, currency |-> <<>>, promo_code |-> None,
     idempotency_key |-> <<>>, shared_payment_token |-> <<>>, session_id |-> 0,
     buyer_email |-> <<98, 117, 121, 101, 114, 64, 101, 120, 97, 109, 112, 108, 101, 46, 99, 111, 109>> (* "buyer@example.com" *),
     amount_minor |-> 0, payment_intent_id |-> 0, category |-> <<>>, size_inches |-> None]

Request(tool, args) == [tool |-> tool, args |-> args]

\* A checkout line: CheckoutItemInput / CheckoutCartItemInput
Line(name, quantity, unit_amount_major) ==
    [name |-> name, quantity |-> quantity, unit_amount_major |-> unit_amount_major]

\* What a call of the handler ends with: a result returned to the caller
\* (error flag, text, structured content), or an exception that leaves it
ErrorResult(text) ==
    [outcome |-> "returned", isError |-> TRUE, text |-> text, data |-> <<>>]

SuccessResult(text, data) ==
    [outcome |-> "returned", isError |-> FALSE, text |-> text, data |-> data]

Escaped(exception) ==
    [outcome |-> "raised", isError |-> FALSE, text |-> exception, data |-> <<>>]

\* The outcome of a handler: its result, the stores after it, and the calls
\* it made to the catalog, to the payments processor and, for the cross-sell
\* tool, to the suggestion pass on the static catalog
Out(result, st, catalogLog, paymentLog) ==
    [result |-> result, sessions |-> st.sessions, idem |-> st.idem,
     payments |-> st.payments, catalogLog |-> catalogLog, paymentLog |-> paymentLog,
     staticLog |-> <<>>]

WithStatic(out, staticLog) == [out EXCEPT !.staticLog = staticLog]

(***************************************************************************)
(* Input models                                                            *)
(***************************************************************************)
Positive(d) == d.sign = 1 /\ d.coef > 0

LinesValid(items) ==
    \A i \in 1..Len(items) :
        /\ items[i].name # <<>>
        /\ items[i].quantity > 0
        /\ Positive(items[i].unit_amount_major)

CrossSellRequestInput(a) ==
    /\ a.wellFormed
    /\ \A i \in 1..Len(a.cart_items) :
           a.cart_items[i].id # <<>> /\ a.cart_items[i].name # <<>>
    /\ a.max_results \in 1..8

SolutionBundleRequestInput(a) ==
    a.wellFormed /\ a.goal # <<>> /\ a.max_results \in 1..8

CheckoutSessionInput(a) ==
    a.wellFormed /\ a.items # None /\ LinesValid(a.items[1]) /\ Len(a.currency) >= 3

CheckoutCreateSessionInput(a) ==
    /\ a.wellFormed /\ a.items # None /\ LinesValid(a.items[1]) /\ Len(a.currency) >= 3
    /\ a.buyer_email # <<>>

CheckoutUpdateSessionInput(a) ==
    a.wellFormed /\ a.session_id >= 1 /\ (a.items # None => LinesValid(a.items[1]))

CheckoutCompleteSessionInput(a) == a.wellFormed /\ a.session_id >= 1

CreatePaymentIntentInput(a) ==
    a.wellFormed /\ a.amount_minor > 0 /\ Len(a.currency) >= 3 /\ a.buyer_email # <<>>

ConfirmPaymentIntentInput(a) == a.wellFormed /\ a.payment_intent_id >= 1

(***************************************************************************)
(* Checkout totals, sessions and the idempotency cache                     *)
(***************************************************************************)
\* The subtotal of the lines: the first line whose conversion raises, or
\* whose amount in minor units is not positive, ends the loop
RECURSIVE Subtotal(_, _, _)
Subtotal(items, currency, acc) ==
    IF items = <<>> THEN Ok(acc)
    ELSE LET unit_amount == _to_minor_amount(Head(items).unit_amount_major, currency)
         IN  IF ~unit_amount.ok THEN unit_amount
             ELSE IF unit_amount.v <= 0 THEN Raised("ValueError")
             ELSE Subtotal(Tail(items), currency,
                           acc + unit_amount.v * Head(items).quantity)

WELCOME10 == <<87, 69, 76, 67, 79, 77, 69, 49, 48>> (* "WELCOME10" *)
EUR == <<69, 85, 82>> (* "EUR" *)

Totals(subtotal, discount, shipping, currency) ==
    [subtotal_minor |-> subtotal, discount_minor |-> discount,
     tax_minor |-> 0, shipping_minor |-> shipping,
     grand_total_minor |-> Max(0, Max(0, subtotal - discount) + shipping),
     currency |-> Upper(currency)]

\* Totals that charge the shipping up to the threshold itself
TotalsOf_shipping_at_threshold(subtotal, currency, promo_code) ==
    IF ~subtotal.ok THEN subtotal
    ELSE Ok(Totals(subtotal.v,
                   IF promo_code # None /\ promo_code[1] # <<>>
                      /\ Upper(promo_code[1]) = WELCOME10
                   THEN subtotal.v \div 10 ELSE 0,
                   IF Upper(currency) = EUR /\ subtotal.v <= 5000 THEN 500 ELSE 0,
                   currency))

\* int(subtotal * 0.10) is the integer part of a tenth of the subtotal for
\* the amounts of the model
TotalsOf(subtotal, currency, promo_code) ==
    IF ~subtotal.ok THEN subtotal
    ELSE Ok(Totals(subtotal.v,
                   IF promo_code # None /\ promo_code[1] # <<>>
                      /\ Upper(promo_code[1]) = WELCOME10
                   THEN subtotal.v \div 10 ELSE 0,
                   IF Upper(currency) = EUR /\ subtotal.v < 5000 THEN 500 ELSE 0,
                   currency))

_compute_checkout_totals(items, currency, promo_code) ==
    TotalsOf(Subtotal(items, currency, 0), currency, promo_code)

\* IDEMPOTENCY_CACHE: a set of entries, at most one per (key, operation)
InCache(idem, key, operation) ==
    \E e \in idem : e.key = key /\ e.operation = operation

_get_idempotent_response(idem, key, operation) ==
    IF key = <<>> \/ ~InCache(idem, key, operation) THEN None
    ELSE Some((CHOOSE e \in idem : e.key = key /\ e.operation = operation).payload)

\* A cache keyed by the key alone
_save_idempotent_response_by_key(idem, key, operation, payload) ==
    {e \in idem : e.key # key}
    \cup {[key |-> key, operation |-> operation, payload |-> payload]}

_save_idempotent_response(idem, key, operation, payload) ==
    {e \in idem : ~(e.key = key /\ e.operation = operation)}
    \cup {[key |-> key, operation |-> operation, payload |-> payload]}

_serialize_checkout_session(session_id, status, cart, payment_intent_id) ==
    [id |-> session_id, status |-> status, cart |-> cart,
     payment_intent_id |-> payment_intent_id]

CheckoutCart(items, totals) == [items |-> items, totals |-> totals]

(***************************************************************************)
(* The payments processor                                                  *)
(***************************************************************************)
DEMO_SPT_TO_PM ==
    << [spt |-> <<116, 101, 115, 116, 95, 115, 112, 116, 95, 118, 105, 115, 97>> (* "test_spt_visa" *), pm |-> <<112, 109, 95, 99, 97, 114, 100, 95, 118, 105, 115, 97>> (* "pm_card_visa" *)],
       [spt |-> <<116, 101, 115, 116, 95, 115, 112, 116, 95, 51, 100, 115, 50>> (* "test_spt_3ds2" *), pm |-> <<112, 109, 95, 99, 97, 114, 100, 95, 97, 117, 116, 104, 101, 110, 116, 105, 99, 97, 116, 105, 111, 110, 82, 101, 113, 117, 105, 114, 101, 100>> (* "pm_card_authenticationRequired" *)] >>

resolve_payment_method_from_spt(shared_payment_token) ==
    LET hits == {k \in 1..Len(DEMO_SPT_TO_PM) : DEMO_SPT_TO_PM[k].spt = shared_payment_token}
    IN  IF shared_payment_token = <<>> \/ hits = {} THEN None
        ELSE Some(DEMO_SPT_TO_PM[CHOOSE k \in hits : TRUE].pm)

\* stripe.PaymentIntent.create: the new intent is the next one of the
\* processor; its id is its place
create_payment_intent(payments, amount_minor, currency, shared_payment_token) ==
    Append(payments,
           [amount |-> amount_minor, currency |-> currency,
            payment_method |-> resolve_payment_method_from_spt(shared_payment_token),
            status |-> "requires_confirmation"])

\* stripe.PaymentIntent.confirm: the processor decides the new status; an
\* intent without payment method is confirmed with the demo card
confirm_payment_intent(payments, payment_intent_id, status) ==
    [payments EXCEPT ![payment_intent_id] =
        [@ EXCEPT !.status = status,
                  !.payment_method =
                      IF @ = None THEN Some(<<112, 109, 95, 99, 97, 114, 100, 95, 118, 105, 115, 97>> (* "pm_card_visa" *)) ELSE @]]

(***************************************************************************)
(* The handlers, one per tool.  st holds the stores (sessions, idem,       *)
(* payments); env holds what the collaborators answer during the call:     *)
(* env.catalog the rows of the catalog query (a failed query gives none),  *)
(* env.payment the outcome at the payments processor, env.prompts the      *)
(* state of the prompt files, env.stripeKey whether the key is configured. *)
(***************************************************************************)
\* get_products_from_motherduck: the rows, filtered by the category when
\* one is given; a failure of the connection, of the query or of the filter
\* gives []
get_products_from_motherduck(rows, category) ==
    IF category = <<>> THEN rows
    ELSE ValueOr(filter_products_by_category(rows, Some(category)), <<>>)

get_instructions(req, env, st) ==
    IF env.prompts = "missing"
    THEN Out(ErrorResult("Developer prompt file(s) not found"), st, <<>>, <<>>)
    ELSE IF env.prompts = "unreadable"
    THEN Out(ErrorResult("Error reading instructions file"), st, <<>>, <<>>)
    ELSE Out(SuccessResult("instructions", <<>>), st, <<>>, <<>>)

\* The suggestion pass on the live catalog; none without products
LiveSuggestions(a, products) ==
    IF products # <<>>
    THEN _get_cross_sell_suggestions_from_db(a.cart_items, products, a.max_results)
    ELSE <<>>

\* One run of the suggestion pass on the static catalog
StaticRun(a) == [cart_items |-> a.cart_items, max_results |-> a.max_results]

StaticSuggestions(run) ==
    _get_cross_sell_suggestions(run.cart_items, CROSS_SELL_FALLBACK_CATALOG,
                                run.max_results)

CrossSellResult(suggestions, products, st) ==
    Out(SuccessResult("Cross-sell suggestions generated.", suggestions), st,
        <<products>>, <<>>)

\* An answer that never runs the pass on the static catalog
CrossSellAnswer_live_only(a, live, products, st) ==
    CrossSellResult(live, products, st)

\* The live suggestions when the catalog answered and gave some, the pass on
\* the static catalog otherwise
CrossSellAnswer(a, live, products, st) ==
    IF live # <<>> THEN CrossSellResult(live, products, st)
    ELSE WithStatic(CrossSellResult(StaticSuggestions(StaticRun(a)), products, st),
                    << StaticRun(a) >>)

cross_sell_recommendations(req, env, st) ==
    IF ~CrossSellRequestInput(req.args)
    THEN Out(ErrorResult("Invalid input"), st, <<>>, <<>>)
    ELSE CrossSellAnswer(req.args,
                         LiveSuggestions(req.args,
                                         get_products_from_motherduck(env.catalog, <<>>)),
                         get_products_from_motherduck(env.catalog, <<>>), st)

MEDIUM == <<109, 101, 100, 105, 117, 109>> (* "medium" *)

\* price_preference after lower() and strip(), "medium" taken as "low"
NormalPreference(stripped) == IF stripped = MEDIUM THEN LOW ELSE stripped

\* The answer on the products of the catalog
BundleAnswer(price_preference, products, st) ==
    IF products = <<>>
    THEN Out(ErrorResult("Nessun prodotto disponibile nel catalogo."), st,
             <<products>>, <<>>)
    ELSE Out(SuccessResult("Solution bundle generated.",
                 [pricePreference |-> price_preference,
                  bundleItems |->
                      MapSeq(_build_solution_bundle_catalog(products, price_preference),
                             _map_product_to_cross_sell_item)]),
             st, <<products>>, <<>>)

\* The checks of the request, in the order of the code; rejectedLog is the
\* catalog log of a rejected request
BundleChecked(a, price_preference, catalog, st, rejectedLog) ==
    IF ~SolutionBundleRequestInput(a)
    THEN Out(ErrorResult("Invalid input"), st, rejectedLog, <<>>)
    ELSE IF ~AnyIn(SOLUTION_BUNDLE_GOAL_KEYWORDS, _normalize_text(a.goal))
    THEN Out(ErrorResult("Goal non supportato"), st, rejectedLog, <<>>)
    ELSE IF price_preference \notin {LOW, HIGH}
    THEN Out(ErrorResult("pricePreference deve essere 'low' o 'high'"), st,
             rejectedLog, <<>>)
    ELSE BundleAnswer(price_preference, get_products_from_motherduck(catalog, <<>>), st)

\* The handler with the catalog queried before the checks of the request
solution_bundle_recommendations_query_first(req, env, st) ==
    BundleChecked(req.args, NormalPreference(Strip(Lower(req.args.price_preference))),
                  env.catalog, st, << get_products_from_motherduck(env.catalog, <<>>) >>)

solution_bundle_recommendations(req, env, st) ==
    BundleChecked(req.args, NormalPreference(Strip(Lower(req.args.price_preference))),
                  env.catalog, st, <<>>)

\* The loop over the items of create_checkout_session: the unit amounts in
\* minor units, or the first line that ends the loop
RECURSIVE LineItems(_, _, _)
LineItems(items, currency, acc) ==
    IF items = <<>> THEN Ok(acc)
    ELSE LET unit_amount == _to_minor_amount(Head(items).unit_amount_major, currency)
         IN  IF ~unit_amount.ok THEN unit_amount
             ELSE IF unit_amount.v <= 0 THEN Raised("invalid unit_amount")
             ELSE LineItems(Tail(items), currency, Append(acc, unit_amount.v))

CreateCheckoutSessionAnswer(line_items, env, st) ==
    IF ~line_items.ok /\ line_items.err = "invalid unit_amount"
    THEN Out(ErrorResult("Invalid unit_amount for item"), st, <<>>, <<>>)
    ELSE IF ~line_items.ok
    THEN Out(Escaped(line_items.err), st, <<>>, <<>>)
    ELSE IF env.payment = "raises"
    THEN Out(ErrorResult("Error creating checkout session"), st, <<>>,
             << "checkout.Session.create" >>)
    ELSE Out(SuccessResult("Checkout session creata con successo.", line_items.v),
             st, <<>>, << "checkout.Session.create" >>)

\* The conversion of the amounts is outside every try block: what it raises
\* leaves the handler
create_checkout_session(req, env, st) ==
    IF ~CheckoutSessionInput(req.args)
    THEN Out(ErrorResult("Invalid input"), st, <<>>, <<>>)
    ELSE IF ~env.stripeKey
    THEN Out(ErrorResult("STRIPE_SECRET_KEY non configurata"), st, <<>>, <<>>)
    ELSE CreateCheckoutSessionAnswer(
             LineItems(req.args.items[1], Lower(req.args.currency), <<>>), env, st)

\* The session stored and returned
SessionCreated(a, st, totals, payments, session_obj) ==
    Out(SuccessResult("session", session_obj),
        [sessions |-> Append(st.sessions,
                          [status |-> "requires_confirmation",
                           payment_intent_id |-> Len(payments),
                           buyer_email |-> a.buyer_email,
                           currency |-> a.currency, items |-> a.items[1],
                           promo_code |-> a.promo_code, totals |-> totals]),
         idem |-> IF a.idempotency_key # <<>>
                  THEN _save_idempotent_response(st.idem, a.idempotency_key, "create",
                                                 session_obj)
                  ELSE st.idem,
         payments |-> payments],
        <<>>, << "PaymentIntent.create" >>)

SessionWithIntent(a, st, totals, payments) ==
    SessionCreated(a, st, totals, payments,
        _serialize_checkout_session(Len(st.sessions) + 1, "requires_confirmation",
                                    CheckoutCart(a.items[1], totals), Len(payments)))

\* A creation that stores the failure of the processor under the key
SessionFromTotals_caching_errors(a, env, st, totals) ==
    IF ~totals.ok
    THEN Out(ErrorResult("Error computing totals"), st, <<>>, <<>>)
    ELSE IF env.payment = "raises"
    THEN Out(ErrorResult("Error creating payment intent"),
             [st EXCEPT !.idem =
                 IF a.idempotency_key # <<>>
                 THEN _save_idempotent_response(@, a.idempotency_key, "create", <<>>)
                 ELSE @],
             <<>>, << "PaymentIntent.create" >>)
    ELSE SessionWithIntent(a, st, totals.v,
             create_payment_intent(st.payments, totals.v.grand_total_minor,
                                   Lower(a.currency), a.shared_payment_token))

SessionFromTotals(a, env, st, totals) ==
    IF ~totals.ok
    THEN Out(ErrorResult("Error computing totals"), st, <<>>, <<>>)
    ELSE IF env.payment = "raises"
    THEN Out(ErrorResult("Error creating payment intent"), st, <<>>,
             << "PaymentIntent.create" >>)
    ELSE SessionWithIntent(a, st, totals.v,
             create_payment_intent(st.payments, totals.v.grand_total_minor,
                                   Lower(a.currency), a.shared_payment_token))

\* A creation that never looks into the idempotency cache
checkout_create_session_uncached(req, env, st) ==
    IF ~CheckoutCreateSessionInput(req.args)
    THEN Out(ErrorResult("Invalid input"), st, <<>>, <<>>)
    ELSE IF ~env.stripeKey
    THEN Out(ErrorResult("STRIPE_SECRET_KEY non configurata"), st, <<>>, <<>>)
    ELSE SessionFromTotals(req.args, env, st,
             _compute_checkout_totals(req.args.items[1], Lower(req.args.currency),
                                      req.args.promo_code))

checkout_create_session(req, env, st) ==
    IF ~CheckoutCreateSessionInput(req.args)
    THEN Out(ErrorResult("Invalid input"), st, <<>>, <<>>)
    ELSE IF _get_idempotent_response(st.idem, req.args.idempotency_key, "create") # None
    THEN Out(SuccessResult("Idempotent response (cached).",
                 _get_idempotent_response(st.idem, req.args.idempotency_key, "create")[1]),
             st, <<>>, <<>>)
    ELSE IF ~env.stripeKey
    THEN Out(ErrorResult("STRIPE_SECRET_KEY non configurata"), st, <<>>, <<>>)
    ELSE SessionFromTotals(req.args, env, st,
             _compute_checkout_totals(req.args.items[1], Lower(req.args.currency),
                                      req.args.promo_code))

\* An update that also stores the status it reports
SessionUpdated_resetting_status(a, st, session, items, currency, promo_code, totals) ==
    IF ~totals.ok
    THEN Out(ErrorResult("Error computing totals"), st, <<>>, <<>>)
    ELSE Out(SuccessResult("session",
                 _serialize_checkout_session(a.session_id, "requires_confirmation",
                                             CheckoutCart(items, totals.v),
                                             session.payment_intent_id)),
             [st EXCEPT !.sessions[a.session_id] =
                 [session EXCEPT !.currency = currency, !.items = items,
                                 !.promo_code = promo_code, !.totals = totals.v,
                                 !.status = "requires_confirmation"]],
             <<>>, <<>>)

\* The session with the fields of the request merged in, and its totals
SessionUpdated(a, st, session, items, currency, promo_code, totals) ==
    IF ~totals.ok
    THEN Out(ErrorResult("Error computing totals"), st, <<>>, <<>>)
    ELSE Out(SuccessResult("session",
                 _serialize_checkout_session(a.session_id, "requires_confirmation",
                                             CheckoutCart(items, totals.v),
                                             session.payment_intent_id)),
             [st EXCEPT !.sessions[a.session_id] =
                 [session EXCEPT !.currency = currency, !.items = items,
                                 !.promo_code = promo_code, !.totals = totals.v]],
             <<>>, <<>>)

SessionMerged(a, st, session, items, currency, promo_code) ==
    SessionUpdated(a, st, session, items, currency, promo_code,
                   _compute_checkout_totals(items, currency, promo_code))

checkout_update_session(req, env, st) ==
    IF ~CheckoutUpdateSessionInput(req.args)
    THEN Out(ErrorResult("Invalid input"), st, <<>>, <<>>)
    ELSE IF req.args.session_id \notin 1..Len(st.sessions)
    THEN Out(ErrorResult("Session not found"), st, <<>>, <<>>)
    ELSE SessionMerged(req.args, st, st.sessions[req.args.session_id],
             IF req.args.items # None THEN req.args.items[1]
             ELSE st.sessions[req.args.session_id].items,
             IF req.args.currency # <<>> THEN req.args.currency
             ELSE st.sessions[req.args.session_id].currency,
             IF req.args.promo_code # None THEN req.args.promo_code
             ELSE st.sessions[req.args.session_id].promo_code)

\* The session completed with the outcome of the confirmation
SessionCompleted(a, env, st, session, response_obj) ==
    Out(SuccessResult("response", response_obj),
        [sessions |-> [st.sessions EXCEPT ![a.session_id].status = response_obj.status],
         idem |-> IF a.idempotency_key # <<>>
                  THEN _save_idempotent_response(st.idem, a.idempotency_key, "complete",
                                                 response_obj)
                  ELSE st.idem,
         payments |-> confirm_payment_intent(st.payments, session.payment_intent_id,
                                             env.payment)],
        <<>>, << "PaymentIntent.confirm" >>)

SessionConfirmed(a, env, st, session) ==
    SessionCompleted(a, env, st, session,
        [id |-> a.session_id,
         status |-> IF env.payment = "succeeded" THEN "succeeded" ELSE "failed",
         cart |-> CheckoutCart(session.items, session.totals),
         payment_intent_id |-> session.payment_intent_id])

\* A completion that calls the processor before it looks the session up
checkout_complete_session_confirm_first(req, env, st) ==
    IF ~CheckoutCompleteSessionInput(req.args)
    THEN Out(ErrorResult("Invalid input"), st, <<>>, <<>>)
    ELSE IF _get_idempotent_response(st.idem, req.args.idempotency_key, "complete") # None
    THEN Out(SuccessResult("Idempotent response (cached).",
                 _get_idempotent_response(st.idem, req.args.idempotency_key,
                                          "complete")[1]),
             st, <<>>, <<>>)
    ELSE IF env.payment = "raises"
    THEN Out(ErrorResult("Error confirming payment intent"), st, <<>>,
             << "PaymentIntent.confirm" >>)
    ELSE IF req.args.session_id \notin 1..Len(st.sessions)
    THEN Out(ErrorResult("Session not found"), st, <<>>, <<>>)
    ELSE SessionConfirmed(req.args, env, st, st.sessions[req.args.session_id])

checkout_complete_session(req, env, st) ==
    IF ~CheckoutCompleteSessionInput(req.args)
    THEN Out(ErrorResult("Invalid input"), st, <<>>, <<>>)
    ELSE IF _get_idempotent_response(st.idem, req.args.idempotency_key, "complete") # None
    THEN Out(SuccessResult("Idempotent response (cached).",
                 _get_idempotent_response(st.idem, req.args.idempotency_key,
                                          "complete")[1]),
             st, <<>>, <<>>)
    ELSE IF req.args.session_id \notin 1..Len(st.sessions)
    THEN Out(ErrorResult("Session not found"), st, <<>>, <<>>)
    ELSE IF env.payment = "raises"
    THEN Out(ErrorResult("Error confirming payment intent"), st, <<>>,
             << "PaymentIntent.confirm" >>)
    ELSE SessionConfirmed(req.args, env, st, st.sessions[req.args.session_id])
create_payment_intent_tool(req, env, st) ==
    LET a == req.args
        payments == create_payment_intent(st.payments, a.amount_minor, Lower(a.currency),
                                          a.shared_payment_token)
    IN  IF ~CreatePaymentIntentInput(a)
        THEN Out(ErrorResult("Invalid input"), st, <<>>, <<>>)
        ELSE IF ~env.stripeKey
        THEN Out(ErrorResult("STRIPE_SECRET_KEY non configurata"), st, <<>>, <<>>)
        ELSE IF env.payment = "raises"
        THEN Out(ErrorResult("Error creating payment intent"), st, <<>>,
                 << "PaymentIntent.create" >>)
        ELSE Out(SuccessResult("PaymentIntent creato con successo.",
                               [id |-> Len(payments), status |-> "requires_confirmation"]),
                 [st EXCEPT !.payments = payments], <<>>, << "PaymentIntent.create" >>)

\* The processor refuses an intent it does not hold
confirm_payment_intent_tool(req, env, st) ==
    LET a == req.args
    IN  IF ~ConfirmPaymentIntentInput(a)
        THEN Out(ErrorResult("Invalid input"), st, <<>>, <<>>)
        ELSE IF ~env.stripeKey
        THEN Out(ErrorResult("STRIPE_SECRET_KEY non configurata"), st, <<>>, <<>>)
        ELSE IF env.payment = "raises" \/ a.payment_intent_id \notin 1..Len(st.payments)
        THEN Out(ErrorResult("Error confirming payment intent"), st, <<>>,
                 << "PaymentIntent.confirm" >>)
        ELSE Out(SuccessResult("PaymentIntent confermato con successo.",
                               [id |-> a.payment_intent_id, status |-> env.payment]),
                 [st EXCEPT !.payments =
                     confirm_payment_intent(st.payments, a.payment_intent_id, env.payment)],
                 <<>>, << "PaymentIntent.confirm" >>)

\* WIDGETS_BY_ID: the identifiers of the widgets
WIDGETS_BY_ID ==
    { "electronics-map", "electronics-carousel", "electronics-albums",
      "electronics-list", "electronics-shop", "product-list", "shopping-cart" }

unknown_tool(req, env, st) == Out(ErrorResult("Unknown tool"), st, <<>>, <<>>)

MAX_CAROUSEL_PRODUCTS == 6

\* The widget tools.  size_inches is absent, a number, or a text that int()
\* does not parse; the requests of the model carry no other criterion, so
\* the strict type filter on keywords does not apply.  The structured
\* content is the product list handed to the widget, in ranked order.
WidgetAnswer(req, criteria, products, st) ==
    IF req.tool = "product-list"
    THEN Out(SuccessResult("widget", products), st, <<products>>, <<>>)
    ELSE IF req.tool = "electronics-albums"
    THEN Out(SuccessResult("widget", rank_products_by_criteria(products, criteria)),
             st, <<products>>, <<>>)
    ELSE IF req.tool \in {"electronics-carousel", "electronics-map", "electronics-list"}
    THEN Out(SuccessResult("widget",
                 rank_products_by_criteria(
                     IF req.tool = "electronics-carousel" /\ req.args.category # <<>>
                     THEN Take(products, MAX_CAROUSEL_PRODUCTS) ELSE products,
                     criteria)),
             st, <<products>>, <<>>)
    ELSE Out(SuccessResult("widget", <<>>), st, <<>>, <<>>)

widget_tool(req, env, st) ==
    IF req.args.size_inches # None /\ ~req.args.size_inches[1].parses
    THEN Out(ErrorResult("Error executing tool"), st, <<>>, <<>>)
    ELSE WidgetAnswer(req,
             IF req.args.size_inches = None THEN None
             ELSE Some(Criteria(Some(req.args.size_inches[1].value), None, None, None,
                                <<>>)),
             get_products_from_motherduck(env.catalog, req.args.category), st)

\* The dispatch on the tool name
_call_tool_request(req, env, st) ==
    IF req.tool = "get_instructions" THEN get_instructions(req, env, st)
    ELSE IF req.tool = "cross_sell_recommendations"
    THEN cross_sell_recommendations(req, env, st)
    ELSE IF req.tool = "solution_bundle_recommendations"
    THEN solution_bundle_recommendations(req, env, st)
    ELSE IF req.tool = "create_checkout_session" THEN create_checkout_session(req, env, st)
    ELSE IF req.tool = "checkout_create_session" THEN checkout_create_session(req, env, st)
    ELSE IF req.tool = "checkout_update_session" THEN checkout_update_session(req, env, st)
    ELSE IF req.tool = "checkout_complete_session"
    THEN checkout_complete_session(req, env, st)
    ELSE IF req.tool = "create_payment_intent" THEN create_payment_intent_tool(req, env, st)
    ELSE IF req.tool = "confirm_payment_intent"
    THEN confirm_payment_intent_tool(req, env, st)
    ELSE IF req.tool \notin WIDGETS_BY_ID THEN unknown_tool(req, env, st)
    ELSE widget_tool(req, env, st)

(***************************************************************************)
(* Tool calls handled one at a time.                                       *)
(***************************************************************************)
\* Bound: number of tool calls in a behaviour
MaxCalls == 2

NoRequest == Request("none", NoArgs)

\* The rows the catalog query may return; none when the query fails
ShopRows == << DbProducts[1], DbProducts[3], DbProducts[5] >>

ToolCatalogs == { <<>>, ShopRows }

PaymentOutcomes == { "succeeded", "requires_action", "raises" }

PromptStates == { "present", "missing", "unreadable" }

Env(catalog, payment, prompts) ==
    [catalog |-> catalog, payment |-> payment, prompts |-> prompts,
     stripeKey |-> tStripeKey]

Malformed == [NoArgs EXCEPT !.wellFormed = FALSE]

InstructionRequests == { Request("get_instructions", NoArgs) }

CrossSellRequests ==
    { Request("cross_sell_recommendations", a) : a \in
        { Malformed,
          [NoArgs EXCEPT !.cart_items =
              << CartItem(<<116, 118, 45, 49>> (* "tv-1" *), <<83, 109, 97, 114, 116, 32, 84, 86, 32, 79, 76, 69, 68, 32, 53, 53>> (* "Smart TV OLED 55" *), <<>>, <<>>, <<84, 86>> (* "TV" *)) >>,
              !.max_results = 2],
          [NoArgs EXCEPT !.cart_items =
              << CartItem(<<98, 107, 45, 55>> (* "bk-7" *), <<67, 111, 111, 107, 98, 111, 111, 107>> (* "Cookbook" *), <<>>, <<>>, <<>>) >>],
          [NoArgs EXCEPT !.cart_items =
              << CartItem(<<116, 118, 45, 49>> (* "tv-1" *), <<83, 109, 97, 114, 116, 32, 84, 86, 32, 79, 76, 69, 68, 32, 53, 53>> (* "Smart TV OLED 55" *), <<>>, <<>>, <<84, 86>> (* "TV" *)) >>,
              !.max_results = 9] } }

BundleGoals ==
    { <<72, 111, 109, 101, 45, 84, 104, 101, 97, 116, 114, 101, 33>> (* "Home-Theatre!" *), <<117, 110, 32, 99, 105, 110, 101, 109, 97, 32, 105, 110, 32, 99, 97, 115, 97>> (* "un cinema in casa" *), <<103, 97, 109, 105, 110, 103, 32, 112, 99>> (* "gaming pc" *), <<>> (* "" *) }

BundlePricePreferences == { <<108, 111, 119>> (* "low" *), <<32, 72, 73, 71, 72, 32>> (* " HIGH " *), <<77, 101, 100, 105, 117, 109>> (* "Medium" *), <<99, 104, 101, 97, 112>> (* "cheap" *) }

SolutionBundleRequests ==
    { Request("solution_bundle_recommendations", a) : a \in
        { Malformed }
        \cup { [NoArgs EXCEPT !.goal = g, !.price_preference = p] :
                 g \in BundleGoals, p \in BundlePricePreferences } }

LinesTv == << Line(<<84, 86>> (* "TV" *), 1, Dec(1, 10005, -3)) >>
LinesCables == << Line(<<67, 97, 118, 111>> (* "Cavo" *), 2, Dec(1, 2500, -2)), Line(<<84, 86>> (* "TV" *), 1, Dec(1, 60, 0)) >>
LinesHuge == << Line(<<84, 86>> (* "TV" *), 1, Dec(1, 1, 30)) >>
LinesTiny == << Line(<<86, 105, 116, 101>> (* "Vite" *), 1, Dec(1, 1, -3)) >>

CreateCheckoutSessionRequests ==
    { Request("create_checkout_session", a) : a \in
        { Malformed,
          [NoArgs EXCEPT !.items = Some(LinesTv), !.currency = <<69, 85, 82>> (* "EUR" *)],
          [NoArgs EXCEPT !.items = Some(LinesCables), !.currency = <<106, 112, 121>> (* "jpy" *)],
          [NoArgs EXCEPT !.items = Some(LinesTiny), !.currency = <<101, 117, 114>> (* "eur" *)],
          [NoArgs EXCEPT !.items = Some(LinesHuge), !.currency = <<101, 117, 114>> (* "eur" *)],
          [NoArgs EXCEPT !.items = Some(LinesTv), !.currency = <<101, 117>> (* "eu" *)] } }

CheckoutCreateSessionRequests ==
    { Request("checkout_create_session", a) : a \in
        { Malformed,
          [NoArgs EXCEPT !.items = Some(LinesTv), !.currency = <<69, 85, 82>> (* "EUR" *)],
          [NoArgs EXCEPT !.items = Some(LinesTv), !.currency = <<101, 117, 114>> (* "eur" *),
                         !.idempotency_key = <<107, 49>> (* "k1" *),
                         !.shared_payment_token = <<116, 101, 115, 116, 95, 115, 112, 116, 95, 118, 105, 115, 97>> (* "test_spt_visa" *)],
          [NoArgs EXCEPT !.items = Some(LinesCables), !.currency = <<117, 115, 100>> (* "usd" *),
                         !.idempotency_key = <<107, 49>> (* "k1" *), !.promo_code = Some(<<119, 101, 108, 99, 111, 109, 101, 49, 48>> (* "welcome10" *))],
          [NoArgs EXCEPT !.items = Some(LinesHuge), !.currency = <<101, 117, 114>> (* "eur" *),
                         !.idempotency_key = <<107, 50>> (* "k2" *)] } }

CheckoutUpdateSessionRequests ==
    { Request("checkout_update_session", a) : a \in
        { Malformed,
          [NoArgs EXCEPT !.session_id = 1, !.items = Some(LinesCables)],
          [NoArgs EXCEPT !.session_id = 1, !.currency = <<106, 112, 121>> (* "jpy" *),
                         !.promo_code = Some(<<87, 69, 76, 67, 79, 77, 69, 49, 48>> (* "WELCOME10" *))],
          [NoArgs EXCEPT !.session_id = 1, !.items = Some(LinesHuge)],
          [NoArgs EXCEPT !.session_id = 2, !.promo_code = Some(<<>> (* "" *))] } }

CheckoutCompleteSessionRequests ==
    { Request("checkout_complete_session", a) : a \in
        { Malformed }
        \cup { [NoArgs EXCEPT !.session_id = s, !.idempotency_key = k] :
                 s \in {1, 2}, k \in { <<>> (* "" *), <<107, 49>> (* "k1" *) } } }

CreatePaymentIntentRequests ==
    { Request("create_payment_intent", a) : a \in
        { [NoArgs EXCEPT !.amount_minor = 0, !.currency = <<101, 117, 114>> (* "eur" *)],
          [NoArgs EXCEPT !.amount_minor = 1000, !.currency = <<69, 85, 82>> (* "EUR" *),
                         !.shared_payment_token = <<116, 101, 115, 116, 95, 115, 112, 116, 95, 51, 100, 115, 50>> (* "test_spt_3ds2" *)] } }

ConfirmPaymentIntentRequests ==
    { Request("confirm_payment_intent", [NoArgs EXCEPT !.payment_intent_id = p]) :
        p \in {0, 1, 7} }

WidgetRequests ==
    { Request("product-list", NoArgs),
      Request("product-list", [NoArgs EXCEPT !.category = <<116, 118>> (* "tv" *)]),
      Request("electronics-carousel",
              [NoArgs EXCEPT !.category = <<65, 117, 100, 105, 111>> (* "Audio" *),
                             !.size_inches = Some([parses |-> TRUE, value |-> 55])]),
      Request("electronics-albums", NoArgs),
      Request("electronics-list",
              [NoArgs EXCEPT !.size_inches = Some([parses |-> FALSE, value |-> 0])]),
      Request("electronics-map", NoArgs),
      Request("electronics-shop", [NoArgs EXCEPT !.category = <<116, 118>> (* "tv" *)]),
      Request("shopping-cart", NoArgs) }

UnknownRequests ==
    { Request("no-such-tool", NoArgs), Request("mixed-auth-search", NoArgs) }

\* CHECKOUT_SESSIONS and IDEMPOTENCY_CACHE are empty when the module is
\* loaded; the processor holds no intent, no call was handled
NoStores ==
    [sessions |-> <<>>, idem |-> {}, payments |-> <<>>,
     request |-> NoRequest, result |-> SuccessResult("none", <<>>)]

\* No request has been accepted
NoTasks == [inFlight |-> <<>>, handled |-> <<>>]

ToolInit ==
    /\ tCalls = 0
    /\ tRequest = NoRequest
    /\ tResult = SuccessResult("none", <<>>)
    /\ tCatalogLog = <<>>
    /\ tPaymentLog = <<>>
    /\ tStaticLog = <<>>
    /\ tStripeKey \in BOOLEAN
    /\ tSessions = <<>>
    /\ tIdem = {}
    /\ tPayments = <<>>
    /\ tBefore = NoStores
    /\ tTasks = NoTasks

ToolIdle ==
    /\ tCalls = 0 /\ tRequest = NoRequest /\ tResult = SuccessResult("none", <<>>)
    /\ tCatalogLog = <<>> /\ tPaymentLog = <<>> /\ tStaticLog = <<>> /\ tStripeKey = FALSE
    /\ tSessions = <<>> /\ tIdem = {} /\ tPayments = <<>> /\ tBefore = NoStores
    /\ tTasks = NoTasks

Stores == [sessions |-> tSessions, idem |-> tIdem, payments |-> tPayments]

\* What a call leaves behind it for the next one to be compared with: the
\* stores alone, or the stores with the request and its result
StoresBefore ==
    [sessions |-> tSessions, idem |-> tIdem, payments |-> tPayments,
     request |-> NoRequest, result |-> SuccessResult("none", <<>>)]

CallBefore ==
    [sessions |-> tSessions, idem |-> tIdem, payments |-> tPayments,
     request |-> tRequest, result |-> tResult]

\* The end of one call: the request and what the handler ended with are
\* recorded, the stores are replaced by the handler's
ReturnsAfter(before, limit, req, ended) ==
    /\ tCalls < limit
    /\ \E out \in {ended} :
        /\ tCalls' = tCalls + 1
        /\ tRequest' = req
        /\ tResult' = out.result
        /\ tCatalogLog' = out.catalogLog
        /\ tPaymentLog' = out.paymentLog
        /\ tStaticLog' = out.staticLog
        /\ tSessions' = out.sessions
        /\ tIdem' = out.idem
        /\ tPayments' = out.payments
        /\ tBefore' = before
        /\ UNCHANGED tStripeKey
        /\ UNCHANGED <<filterVars, rankVars, crossVars, bundleVars, minorVars, duckVars>>

\* A call handled as soon as it is accepted
ReturnWithin(limit, req, ended) ==
    /\ ReturnsAfter(CallBefore, limit, req, ended)
    /\ UNCHANGED tTasks

Returns(limit, req, ended) == ReturnsAfter(CallBefore, limit, req, ended)

Return(req, ended) ==
    /\ ReturnsAfter(StoresBefore, MaxCalls, req, ended)
    /\ UNCHANGED tTasks

\* One action per branch of _call_tool_request, taken by the requests that
\* carry the branch's tool name
GetInstructions ==
    \E req \in InstructionRequests, prompts \in PromptStates :
        Return(req, get_instructions(req, Env(<<>>, "succeeded", prompts), Stores))

CrossSellRecommendations ==
    \E req \in CrossSellRequests, catalog \in ToolCatalogs :
        Return(req, cross_sell_recommendations(
                        req, Env(catalog, "succeeded", "present"), Stores))

SolutionBundleRecommendations ==
    \E req \in SolutionBundleRequests, catalog \in ToolCatalogs :
        Return(req, solution_bundle_recommendations(
                        req, Env(catalog, "succeeded", "present"), Stores))

CreateCheckoutSession ==
    \E req \in CreateCheckoutSessionRequests, payment \in PaymentOutcomes :
        Return(req, create_checkout_session(req, Env(<<>>, payment, "present"), Stores))

CheckoutCreateSession ==
    \E req \in CheckoutCreateSessionRequests, payment \in PaymentOutcomes :
        Return(req, checkout_create_session(req, Env(<<>>, payment, "present"), Stores))

CheckoutUpdateSession ==
    \E req \in CheckoutUpdateSessionRequests :
        Return(req, checkout_update_session(
                        req, Env(<<>>, "succeeded", "present"), Stores))

CheckoutCompleteSession ==
    \E req \in CheckoutCompleteSessionRequests, payment \in PaymentOutcomes :
        Return(req, checkout_complete_session(
                        req, Env(<<>>, payment, "present"), Stores))

CreatePaymentIntent ==
    \E req \in CreatePaymentIntentRequests, payment \in PaymentOutcomes :
        Return(req, create_payment_intent_tool(
                        req, Env(<<>>, payment, "present"), Stores))

ConfirmPaymentIntent ==
    \E req \in ConfirmPaymentIntentRequests, payment \in PaymentOutcomes :
        Return(req, confirm_payment_intent_tool(
                        req, Env(<<>>, payment, "present"), Stores))

WidgetTool ==
    \E req \in WidgetRequests, catalog \in ToolCatalogs :
        Return(req, widget_tool(req, Env(catalog, "succeeded", "present"), Stores))

\* A name that is no tool and no widget passes every test of the dispatch
UnknownTool ==
    \E req \in UnknownRequests :
        Return(req, _call_tool_request(req, Env(<<>>, "succeeded", "present"), Stores))

ToolNext ==
    \/ GetInstructions
    \/ CrossSellRecommendations
    \/ SolutionBundleRecommendations
    \/ CreateCheckoutSession
    \/ CheckoutCreateSession
    \/ CheckoutUpdateSession
    \/ CheckoutCompleteSession
    \/ CreatePaymentIntent
    \/ ConfirmPaymentIntent
    \/ WidgetTool
    \/ UnknownTool

BundleCall == tCalls > 0 /\ tRequest.tool = "solution_bundle_recommendations"

GoalSupported(a) ==
    \E k \in 1..Len(SOLUTION_BUNDLE_GOAL_KEYWORDS) :
        Contains(_normalize_text(a.goal), SOLUTION_BUNDLE_GOAL_KEYWORDS[k])

\* The preference is compared in lower case, the blanks around it dropped
PreferenceSupported(a) == Strip(Lower(a.price_preference)) \in {LOW, HIGH, MEDIUM}

BundleRejected(a) ==
    ~SolutionBundleRequestInput(a) \/ ~GoalSupported(a) \/ ~PreferenceSupported(a)

\* C9: solution_bundle_recommendations returns an error result when the
\* request violates the input model, when the normalized goal contains none
\* of the goal keywords, or when the price preference is none of low, high,
\* medium, and then the catalog is not queried; a request that passes these
\* checks queries the catalog once and gets an error result when the catalog
\* returns no products; "medium" is treated as "low".
C9_BundleErrorsBeforeCatalog ==
    BundleCall =>
        /\ tResult.outcome = "returned"
        /\ BundleRejected(tRequest.args) => tResult.isError /\ tCatalogLog = <<>>
        /\ ~BundleRejected(tRequest.args) =>
               /\ Len(tCatalogLog) = 1
               /\ tResult.isError = (tCatalogLog[1] = <<>>)
               /\ ~tResult.isError =>
                      tResult.data.pricePreference =
                          (IF Strip(Lower(tRequest.args.price_preference)) = HIGH
                           THEN HIGH ELSE LOW)

\* A request with a supported goal and an unsupported price preference that
\* was answered with an error.
C9_Witness ==
    /\ BundleCall
    /\ SolutionBundleRequestInput(tRequest.args)
    /\ GoalSupported(tRequest.args)
    /\ ~PreferenceSupported(tRequest.args)
    /\ tResult.isError

\* C10: every tool call ends by returning a result; no exception leaves the
\* handler.
C10_EveryCallReturnsAResult == tCalls > 0 => tResult.outcome = "returned"


CrossSellCall == tCalls > 0 /\ tRequest.tool = "cross_sell_recommendations"

\* C13: in cross_sell_recommendations the static catalog is used exactly when
\* the live catalog returned no products or the suggestion pass on the live
\* catalog returned no suggestion; then the same pass is run on the static
\* catalog with the same cart and max_results; when the live pass returns a
\* suggestion the static catalog is not consulted.
C13_StaticCatalogOnlyAsFallback ==
    (CrossSellCall /\ CrossSellRequestInput(tRequest.args)) =>
        \A live \in {LiveSuggestions(tRequest.args, tCatalogLog[1])} :
            /\ tResult.outcome = "returned" /\ ~tResult.isError
            /\ (tStaticLog # <<>>) <=> (tCatalogLog[1] = <<>> \/ live = <<>>)
            /\ live # <<>> => tResult.data = live
            /\ live = <<>> =>
                   /\ tStaticLog = << StaticRun(tRequest.args) >>
                   /\ tResult.data = StaticSuggestions(StaticRun(tRequest.args))

\* A call for which the live catalog had products and the pass on them gave
\* no suggestion, answered from the static catalog.
C13_Witness ==
    /\ CrossSellCall
    /\ CrossSellRequestInput(tRequest.args)
    /\ tCatalogLog[1] # <<>>
    /\ LiveSuggestions(tRequest.args, tCatalogLog[1]) = <<>>
    /\ tStaticLog # <<>>
    /\ tResult.data # <<>>

\* A call answered with the suggestions of the live catalog.
C13_LiveWitness ==
    /\ CrossSellCall
    /\ CrossSellRequestInput(tRequest.args)
    /\ LiveSuggestions(tRequest.args, tCatalogLog[1]) # <<>>
(***************************************************************************)
(* The checkout tools alone: checkout_create_session,                      *)
(* checkout_update_session and checkout_complete_session, handled one at a *)
(* time on the stores CHECKOUT_SESSIONS and IDEMPOTENCY_CACHE.             *)
(***************************************************************************)
\* Bound: number of checkout calls in a behaviour
MaxCheckoutCalls == 4

KeyOne == <<107, 49>> (* "k1" *)
KeyTwo == <<107, 50>> (* "k2" *)

LinesFifty == << Line(<<67, 97, 118, 111>> (* "Cavo" *), 2, Dec(1, 2500, -2)) >>

\* For a new intent the processor answers or raises
CreateOutcomes == { "succeeded", "raises" }

CheckoutCreates ==
    { Request("checkout_create_session", a) : a \in
        { Malformed,
          [NoArgs EXCEPT !.items = Some(LinesTv), !.currency = <<69, 85, 82>> (* "EUR" *),
                         !.idempotency_key = KeyOne, !.promo_code = Some(<<119, 101, 108, 99, 111, 109, 101, 49, 48>> (* "welcome10" *)),
                         !.shared_payment_token = <<116, 101, 115, 116, 95, 115, 112, 116, 95, 118, 105, 115, 97>> (* "test_spt_visa" *)],
          [NoArgs EXCEPT !.items = Some(LinesCables), !.currency = <<117, 115, 100>> (* "usd" *),
                         !.idempotency_key = KeyOne],
          [NoArgs EXCEPT !.items = Some(LinesFifty), !.currency = <<101, 117, 114>> (* "eur" *)],
          [NoArgs EXCEPT !.items = Some(LinesFifty), !.currency = <<101, 117>> (* "eu" *),
                         !.idempotency_key = KeyOne],
          [NoArgs EXCEPT !.items = Some(LinesTiny), !.currency = <<101, 117, 114>> (* "eur" *),
                         !.idempotency_key = KeyTwo] } }

CheckoutUpdates ==
    { Request("checkout_update_session", a) : a \in
        { Malformed,
          [NoArgs EXCEPT !.session_id = 1, !.items = Some(LinesCables)],
          [NoArgs EXCEPT !.session_id = 1, !.currency = <<106, 112, 121>> (* "jpy" *),
                         !.promo_code = Some(<<87, 69, 76, 67, 79, 77, 69, 49, 48>> (* "WELCOME10" *))],
          [NoArgs EXCEPT !.session_id = 1, !.items = Some(LinesTiny)],
          [NoArgs EXCEPT !.session_id = 2, !.promo_code = Some(<<>> (* "" *))] } }

CheckoutCompletes ==
    { Request("checkout_complete_session", a) : a \in
        { Malformed }
        \cup { [NoArgs EXCEPT !.session_id = s, !.idempotency_key = k] :
                 s \in {1, 2}, k \in { <<>> (* "" *), KeyOne } } }

CheckoutCreate ==
    \E req \in CheckoutCreates, payment \in CreateOutcomes :
        ReturnWithin(MaxCheckoutCalls, req,
                     checkout_create_session(req, Env(<<>>, payment, "present"), Stores))

CheckoutUpdate ==
    \E req \in CheckoutUpdates :
        ReturnWithin(MaxCheckoutCalls, req,
                     checkout_update_session(req, Env(<<>>, "succeeded", "present"), Stores))

CheckoutComplete ==
    \E req \in CheckoutCompletes, payment \in PaymentOutcomes :
        ReturnWithin(MaxCheckoutCalls, req,
                     checkout_complete_session(req, Env(<<>>, payment, "present"), Stores))

CheckoutNext ==
    \/ CheckoutCreate
    \/ CheckoutUpdate
    \/ CheckoutComplete

(***************************************************************************)
(* Properties of the checkout tools                                        *)
(***************************************************************************)
LastTool(tool) == tCalls > 0 /\ tRequest.tool = tool

Args == tRequest.args

\* The amount of a line in minor units
LineMinor(line, currency) == _to_minor_amount(line.unit_amount_major, currency)

\* The sum over the lines of unit amount in minor units times quantity
RECURSIVE SumOfLines(_, _)
SumOfLines(items, currency) ==
    IF items = <<>> THEN 0
    ELSE LineMinor(Head(items), currency).v * Head(items).quantity
         + SumOfLines(Tail(items), currency)

\* A line of the list converts to nothing above 0 minor units
HasWorthlessLine(items, currency) ==
    \E i \in 1..Len(items) :
        /\ LineMinor(items[i], currency).ok
        /\ LineMinor(items[i], currency).v <= 0
        /\ \A j \in 1..(i - 1) : LineMinor(items[j], currency).ok

PromoIsWelcome(promo_code) == promo_code # None /\ Upper(promo_code[1]) = WELCOME10

TotalsAsStated(session) ==
    /\ \A i \in 1..Len(session.items) :
           /\ LineMinor(session.items[i], session.currency).ok
           /\ LineMinor(session.items[i], session.currency).v > 0
    /\ session.totals.subtotal_minor = SumOfLines(session.items, session.currency)
    /\ session.totals.discount_minor =
           (IF PromoIsWelcome(session.promo_code)
            THEN session.totals.subtotal_minor \div 10 ELSE 0)
    /\ session.totals.shipping_minor =
           (IF Upper(session.currency) = EUR /\ session.totals.subtotal_minor < 5000
            THEN 500 ELSE 0)
    /\ session.totals.tax_minor = 0
    /\ session.totals.grand_total_minor =
           session.totals.subtotal_minor - session.totals.discount_minor
           + session.totals.shipping_minor

\* The items and the currency the totals of the last call were computed on:
\* those of the request, or for an update those of the session where the
\* request names none
ItemsOfCall ==
    IF Args.items # None THEN Args.items[1] ELSE tBefore.sessions[Args.session_id].items

CurrencyOfCall ==
    IF Args.currency # <<>> THEN Args.currency
    ELSE tBefore.sessions[Args.session_id].currency

\* The last call reached the computation of the totals
TotalsComputed ==
    \/ /\ LastTool("checkout_create_session")
       /\ CheckoutCreateSessionInput(Args)
       /\ _get_idempotent_response(tBefore.idem, Args.idempotency_key, "create") = None
       /\ tStripeKey
    \/ /\ LastTool("checkout_update_session")
       /\ CheckoutUpdateSessionInput(Args)
       /\ Args.session_id \in 1..Len(tBefore.sessions)

\* C22: the totals of every checkout session are: subtotal, the sum over the
\* items of unit amount in minor units times quantity; discount, the integer
\* part of 10% of the subtotal for the promo code WELCOME10 in any case of
\* letters, else 0; shipping, 500 for EUR and a subtotal below 5000, else 0;
\* tax 0; grand total, subtotal - discount + shipping.  An item whose unit
\* amount rounds to 0 minor units or less makes the computation fail.
C22_SessionTotals ==
    /\ \A s \in 1..Len(tSessions) : TotalsAsStated(tSessions[s])
    /\ TotalsComputed /\ HasWorthlessLine(ItemsOfCall, CurrencyOfCall) =>
           /\ tResult = ErrorResult("Error computing totals")
           /\ tSessions = tBefore.sessions

\* A session with the promo code in lower case, a subtotal that is no
\* multiple of 10 and the shipping charge: 1001 - 100 + 500.
C22_Witness ==
    \E s \in 1..Len(tSessions) :
        /\ tSessions[s].promo_code = Some(<<119, 101, 108, 99, 111, 109, 101, 49, 48>> (* "welcome10" *))
        /\ tSessions[s].totals.subtotal_minor = 1001
        /\ tSessions[s].totals.discount_minor = 100
        /\ tSessions[s].totals.shipping_minor = 500
        /\ tSessions[s].totals.grand_total_minor = 1401

\* A call whose totals failed on an item worth less than one minor unit
C22_FailureWitness ==
    /\ TotalsComputed
    /\ HasWorthlessLine(ItemsOfCall, CurrencyOfCall)
    /\ tResult = ErrorResult("Error computing totals")

\* A session at the shipping threshold: subtotal 5000, no shipping
C22_ThresholdWitness ==
    \E s \in 1..Len(tSessions) :
        /\ Upper(tSessions[s].currency) = EUR
        /\ tSessions[s].totals.subtotal_minor = 5000
        /\ tSessions[s].totals.shipping_minor = 0

StoresUnchanged ==
    /\ tSessions = tBefore.sessions
    /\ tIdem = tBefore.idem
    /\ tPayments = tBefore.payments

\* The last call named a session that the session map did not hold, and for
\* a completion its idempotency key was not cached
SessionMissing ==
    \/ /\ LastTool("checkout_update_session")
       /\ CheckoutUpdateSessionInput(Args)
       /\ Args.session_id \notin 1..Len(tBefore.sessions)
    \/ /\ LastTool("checkout_complete_session")
       /\ CheckoutCompleteSessionInput(Args)
       /\ _get_idempotent_response(tBefore.idem, Args.idempotency_key, "complete") = None
       /\ Args.session_id \notin 1..Len(tBefore.sessions)

\* C23: checkout_update_session and checkout_complete_session called with a
\* session id that is not in the session map (for complete: with no cached
\* idempotency key) return the error result "Session not found", make no
\* call to the payments collaborator and leave the session map and the
\* idempotency cache unchanged.
C23_SessionNotFound ==
    SessionMissing =>
        /\ tResult = ErrorResult("Session not found")
        /\ tPaymentLog = <<>>
        /\ StoresUnchanged

\* A completion that names the missing session 2 while session 1 exists, its
\* key cached for the operation create only, the stores not empty.
C23_Witness ==
    /\ SessionMissing
    /\ LastTool("checkout_complete_session")
    /\ Args.idempotency_key = KeyOne
    /\ InCache(tIdem, KeyOne, "create")
    /\ Len(tSessions) = 1
    /\ tResult = ErrorResult("Session not found")

\* An update that names a missing session while another exists
C23_UpdateWitness ==
    /\ SessionMissing
    /\ LastTool("checkout_update_session")
    /\ Len(tSessions) = 1
    /\ tResult = ErrorResult("Session not found")

\* The response the cache held under the key of the last call before it
CachedBefore(operation) ==
    _get_idempotent_response(tBefore.idem, Args.idempotency_key, operation)

Replayed(operation) ==
    /\ tResult = SuccessResult("Idempotent response (cached).", CachedBefore(operation)[1])
    /\ tPaymentLog = <<>>
    /\ StoresUnchanged

\* The last call did the operation itself and succeeded under a key
DoneUnderKey(tool, operation) ==
    /\ LastTool(tool)
    /\ ~tResult.isError
    /\ Args.idempotency_key # <<>>
    /\ CachedBefore(operation) = None

\* C24 as stated: after a checkout_create_session call with idempotency key
\* K has succeeded, every later checkout_create_session call with key K
\* returns the stored response of that first call, creates no payment
\* intent and adds no session, whatever its other arguments are; likewise
\* for checkout_complete_session and the confirmation.
C24_ReplayAsStated ==
    /\ LastTool("checkout_create_session") /\ CachedBefore("create") # None =>
           Replayed("create")
    /\ LastTool("checkout_complete_session") /\ CachedBefore("complete") # None =>
           Replayed("complete")

\* C24, amended: a call that does the operation under a non-empty key
\* stores the response it returns under that key; every later call with the
\* key whose arguments pass the input model returns that stored response and
\* changes no store and calls no collaborator, whatever its other arguments.
C24_Replay ==
    /\ DoneUnderKey("checkout_create_session", "create") =>
           _get_idempotent_response(tIdem, Args.idempotency_key, "create")
               = Some(tResult.data)
    /\ DoneUnderKey("checkout_complete_session", "complete") =>
           _get_idempotent_response(tIdem, Args.idempotency_key, "complete")
               = Some(tResult.data)
    /\ /\ LastTool("checkout_create_session")
       /\ CheckoutCreateSessionInput(Args)
       /\ CachedBefore("create") # None
       => Replayed("create")
    /\ /\ LastTool("checkout_complete_session")
       /\ CheckoutCompleteSessionInput(Args)
       /\ CachedBefore("complete") # None
       => Replayed("complete")

\* A creation with other items and another currency than the first one's
\* that got the first one's session back.
C24_Witness ==
    /\ LastTool("checkout_create_session")
    /\ CachedBefore("create") # None
    /\ Args.items = Some(LinesCables)
    /\ tResult.text = "Idempotent response (cached)."
    /\ tResult.data.id = 1
    /\ tResult.data.cart.items = LinesTv
    /\ Len(tSessions) = 1 /\ Len(tPayments) = 1

\* A completion replayed: the intent is not confirmed again
C24_CompleteWitness ==
    /\ LastTool("checkout_complete_session")
    /\ CachedBefore("complete") # None
    /\ tResult.text = "Idempotent response (cached)."
    /\ tPaymentLog = <<>>

\* C25: over any sequence of tool calls handled one at a time no entry is
\* ever removed from the checkout-session map or from the idempotency cache,
\* and the response stored under an (idempotency key, operation) pair never
\* changes after it is first written; the same key used for the operations
\* "create" and "complete" is held in two independent entries.
C25_StoresOnlyGrow ==
    /\ Len(tSessions) >= Len(tBefore.sessions)
    /\ \A e \in tBefore.idem : e \in tIdem
    /\ \A e1, e2 \in tIdem :
           e1.key = e2.key /\ e1.operation = e2.operation => e1 = e2
    /\ \A e \in tIdem \ tBefore.idem :
           /\ e.key = Args.idempotency_key
           /\ e.operation =
                  (IF tRequest.tool = "checkout_create_session" THEN "create"
                   ELSE "complete")
           /\ ~InCache(tBefore.idem, e.key, e.operation)

\* The key k1 is cached for create and for complete with different
\* responses, and the last call, a completion of session 1 under k1, wrote
\* the second entry beside the first.
C25_Witness ==
    /\ LastTool("checkout_complete_session")
    /\ InCache(tBefore.idem, KeyOne, "create")
    /\ ~InCache(tBefore.idem, KeyOne, "complete")
    /\ InCache(tIdem, KeyOne, "complete")
    /\ _get_idempotent_response(tIdem, KeyOne, "create")
           = _get_idempotent_response(tBefore.idem, KeyOne, "create")
    /\ _get_idempotent_response(tIdem, KeyOne, "create")[1].status
           = "requires_confirmation"
    /\ _get_idempotent_response(tIdem, KeyOne, "complete")[1].status = "succeeded"

Operation ==
    IF tRequest.tool = "checkout_create_session" THEN "create" ELSE "complete"

CreateOrComplete ==
    LastTool("checkout_create_session") \/ LastTool("checkout_complete_session")

\* C26: a checkout_create_session or checkout_complete_session call that
\* ends in an error result (invalid input, missing payment key, totals
\* failure, payments collaborator failure, missing session) writes nothing to
\* the idempotency cache and, for complete, leaves the session status
\* unchanged, so that a later call with the same idempotency key executes the
\* operation again instead of replaying the error.
C26_ErrorsNotCached ==
    /\ CreateOrComplete /\ tResult.isError =>
           /\ tIdem = tBefore.idem
           /\ tSessions = tBefore.sessions
    /\ \A e \in tIdem : e.payload # <<>> /\ e.payload.status # "error"
    /\ /\ CreateOrComplete
       /\ tBefore.request.tool = tRequest.tool
       /\ tBefore.request.args.idempotency_key = Args.idempotency_key
       /\ tBefore.result.isError
       /\ (LastTool("checkout_create_session") => CheckoutCreateSessionInput(Args))
       /\ (LastTool("checkout_complete_session") => CheckoutCompleteSessionInput(Args))
       /\ CachedBefore(Operation) = None
       => tResult.text # "Idempotent response (cached)."

\* The processor failed on a creation under k1 and the next creation under
\* k1 created the session.
C26_Witness ==
    /\ LastTool("checkout_create_session")
    /\ tBefore.request.tool = "checkout_create_session"
    /\ tBefore.request.args.idempotency_key = KeyOne
    /\ tBefore.result = ErrorResult("Error creating payment intent")
    /\ Args.idempotency_key = KeyOne
    /\ ~tResult.isError
    /\ tResult.text # "Idempotent response (cached)."
    /\ tPaymentLog = << "PaymentIntent.create" >>
    /\ Len(tSessions) = Len(tBefore.sessions) + 1

\* A completion that failed at the processor and was run again under its key
C26_CompleteWitness ==
    /\ LastTool("checkout_complete_session")
    /\ tBefore.request.tool = "checkout_complete_session"
    /\ tBefore.request.args = Args
    /\ Args.idempotency_key = KeyOne
    /\ tBefore.result = ErrorResult("Error confirming payment intent")
    /\ ~tResult.isError
    /\ tResult.data.status = "succeeded"
    /\ tPaymentLog = << "PaymentIntent.confirm" >>

\* The response describes the session: its id, status, cart and intent
Describes(response, session_id) ==
    /\ response.id = session_id
    /\ session_id \in 1..Len(tSessions)
    /\ response.status = tSessions[session_id].status
    /\ response.cart = CheckoutCart(tSessions[session_id].items, tSessions[session_id].totals)
    /\ response.payment_intent_id = tSessions[session_id].payment_intent_id

\* C27: the response returned by checkout_complete_session always describes
\* the session named by the request's session_id: its id equals that
\* session_id and its status, cart and payment intent id are those of that
\* session, also when the request carries an idempotency key that was used
\* before.
C27_CompleteDescribesNamedSession ==
    LastTool("checkout_complete_session") /\ ~tResult.isError =>
        Describes(tResult.data, Args.session_id)

\* What holds: a completion that is not answered from the cache describes
\* the session it names
C27_FreshCompleteDescribesNamedSession ==
    /\ LastTool("checkout_complete_session")
    /\ ~tResult.isError
    /\ CachedBefore("complete") = None
    => Describes(tResult.data, Args.session_id)

\* Two sessions; the completion of session 2 under the key of the completion
\* of session 1 returned session 1 as succeeded and left session 2 as it was.
C27_TwoSessions ==
    /\ LastTool("checkout_complete_session")
    /\ Len(tSessions) = 2
    /\ Args.session_id = 2
    /\ ~tResult.isError
    /\ tResult.data.id = 1
    /\ tResult.data.status = "succeeded"
    /\ tSessions[2].status = "requires_confirmation"
    /\ tPayments[tSessions[2].payment_intent_id].status = "requires_confirmation"

\* C28: a successful checkout_update_session changes only the currency,
\* items, promo code and totals of the named session: that session's status,
\* payment intent id and buyer email, every other session and the
\* idempotency cache are unchanged, and no call is made to the payments
\* collaborator; an update that fails while computing totals leaves the
\* session entirely unchanged.
C28_UpdateFrame ==
    /\ LastTool("checkout_update_session") /\ ~tResult.isError =>
           /\ Args.session_id \in 1..Len(tBefore.sessions)
           /\ Len(tSessions) = Len(tBefore.sessions)
           /\ \A s \in 1..Len(tSessions) :
                  s # Args.session_id => tSessions[s] = tBefore.sessions[s]
           /\ tSessions[Args.session_id] =
                  [tBefore.sessions[Args.session_id] EXCEPT
                      !.currency = tSessions[Args.session_id].currency,
                      !.items = tSessions[Args.session_id].items,
                      !.promo_code = tSessions[Args.session_id].promo_code,
                      !.totals = tSessions[Args.session_id].totals]
           /\ tIdem = tBefore.idem
           /\ tPayments = tBefore.payments
           /\ tPaymentLog = <<>>
    /\ LastTool("checkout_update_session") /\ tResult.isError =>
           StoresUnchanged /\ tPaymentLog = <<>>

\* Two sessions, the first completed and cached: an update gave it other
\* items and other totals and left its status succeeded.
C28_Witness ==
    /\ LastTool("checkout_update_session")
    /\ ~tResult.isError
    /\ Len(tSessions) = 2
    /\ Args.session_id = 1
    /\ tBefore.sessions[1].status = "succeeded"
    /\ tSessions[1].status = "succeeded"
    /\ tSessions[1].items # tBefore.sessions[1].items
    /\ tSessions[1].totals # tBefore.sessions[1].totals
    /\ tIdem # {}

\* An update that failed in the totals of a session it named
C28_FailureWitness ==
    /\ LastTool("checkout_update_session")
    /\ Args.session_id \in 1..Len(tSessions)
    /\ tResult = ErrorResult("Error computing totals")

\* The last call confirmed the payment intent of the session it names
Confirmed ==
    /\ LastTool("checkout_complete_session")
    /\ tPaymentLog = << "PaymentIntent.confirm" >>
    /\ ~tResult.isError

\* C29: whenever checkout_complete_session confirms the payment intent of a
\* session, the amount of that payment intent equals the grand total
\* currently stored for the session (the total returned in the completion
\* response), after any sequence of create and update calls on that session.
C29_ConfirmedAmountIsGrandTotal ==
    Confirmed =>
        /\ tResult.data.cart.totals = tSessions[Args.session_id].totals
        /\ tPayments[tSessions[Args.session_id].payment_intent_id].amount
               = tSessions[Args.session_id].totals.grand_total_minor

\* What holds: the intent is created with the grand total of the creation,
\* and confirmed with that amount when no update came between
C29_AmountIsGrandTotalAtCreation ==
    /\ LastTool("checkout_create_session") /\ tPaymentLog # <<>> /\ ~tResult.isError =>
           tPayments[tResult.data.payment_intent_id].amount
               = tResult.data.cart.totals.grand_total_minor
    /\ \A s \in 1..Len(tSessions) :
           tSessions[s].payment_intent_id \in 1..Len(tPayments)

\* The session was created with the total 1401, updated to other items, and
\* completed: the intent of 1401 was confirmed, the response shows 9900.
C29_StaleAmount ==
    /\ Confirmed
    /\ tResult.data.status = "succeeded"
    /\ tPayments[tSessions[Args.session_id].payment_intent_id].amount = 1401
    /\ tResult.data.cart.totals.grand_total_minor = 9900

Statuses == { "requires_confirmation", "succeeded", "failed" }

\* The stored status is one of the three, a new session requires
\* confirmation, and a stored status differs from the one before only for
\* the session whose payment intent the last call, a completion, confirmed
StoredStatusRules ==
    /\ \A s \in 1..Len(tSessions) : tSessions[s].status \in Statuses
    /\ \A s \in (Len(tBefore.sessions) + 1)..Len(tSessions) :
           tSessions[s].status = "requires_confirmation"
    /\ \A s \in 1..Len(tBefore.sessions) :
           tSessions[s].status # tBefore.sessions[s].status =>
               Confirmed /\ Args.session_id = s

\* The last call returned a session object or a completion response
ReportsSession ==
    /\ tCalls > 0
    /\ tRequest.tool \in {"checkout_update_session", "checkout_complete_session"}
    /\ ~tResult.isError

\* C30: a session's stored status is always one of requires_confirmation,
\* succeeded, failed; it is requires_confirmation from creation until a
\* completion confirms the payment, only checkout_complete_session changes
\* it, and once it is succeeded no later tool call (update or a repeated
\* complete) changes it or reports a different status for that session.
C30_StatusLifecycle ==
    /\ StoredStatusRules
    /\ \A s \in 1..Len(tBefore.sessions) :
           tBefore.sessions[s].status = "succeeded" =>
               /\ tSessions[s].status = "succeeded"
               /\ ReportsSession /\ tResult.data.id = s =>
                      tResult.data.status = "succeeded"

\* What holds of the stored status
C30_StoredStatus == StoredStatusRules

\* An update of a succeeded session left the stored status and returned the
\* session as requires_confirmation.
C30_UpdateReportsUnconfirmed ==
    /\ LastTool("checkout_update_session")
    /\ ~tResult.isError
    /\ tBefore.sessions[Args.session_id].status = "succeeded"
    /\ tSessions[Args.session_id].status = "succeeded"
    /\ tResult.data.status = "requires_confirmation"

\* A second completion of a succeeded session, answered by the processor
\* with another status than succeeded, stored failed.
C30_SucceededBecameFailed ==
    /\ Confirmed
    /\ tBefore.sessions[Args.session_id].status = "succeeded"
    /\ tSessions[Args.session_id].status = "failed"

(***************************************************************************)
(* Checkout requests in flight together.  uvicorn.run serves the app in    *)
(* one process on one event loop; _call_tool_request is a coroutine whose  *)
(* checkout branches hold no await, and the processor calls in them are    *)
(* blocking calls.  A request that has been accepted waits as a task; the  *)
(* loop runs one task's handler from its first statement to its return     *)
(* before it runs another.                                                 *)
(***************************************************************************)
\* Bound: number of requests accepted in a behaviour
MaxTasks == 3

TaskCreates ==
    { Request("checkout_create_session", a) : a \in
        { [NoArgs EXCEPT !.items = Some(LinesTv), !.currency = <<69, 85, 82>> (* "EUR" *),
                         !.idempotency_key = KeyOne],
          [NoArgs EXCEPT !.items = Some(LinesCables), !.currency = <<117, 115, 100>> (* "usd" *),
                         !.idempotency_key = KeyOne] } }

TaskUpdates ==
    { Request("checkout_update_session", a) : a \in
        { [NoArgs EXCEPT !.session_id = 1, !.items = Some(LinesCables)] } }

TaskCompletes ==
    { Request("checkout_complete_session", a) : a \in
        { [NoArgs EXCEPT !.session_id = 1, !.idempotency_key = k] :
            k \in { <<>> (* "" *), KeyOne } } }

OperationOf(tool) ==
    IF tool = "checkout_create_session" THEN "create" ELSE "complete"

\* A request waiting for the loop: how many calls had returned when it was
\* accepted, and whether its idempotency key was cached then
Task(req) ==
    [request |-> req, arrived |-> tCalls,
     cached |-> InCache(tIdem, req.args.idempotency_key, OperationOf(req.tool))]

\* The stores without the cache entry a task's key would hit
Forgetting(stores, task) ==
    [stores EXCEPT !.idem =
        {e \in @ : ~(e.key = task.request.args.idempotency_key
                     /\ e.operation = OperationOf(task.request.tool))}]

\* A handler that looks the key up as the cache was when the request arrived
SeenStores_cache_read_at_arrival(task, stores) ==
    IF task.cached THEN stores ELSE Forgetting(stores, task)

\* What a handler reads: the stores as they are when the loop runs it; it
\* is not suspended between its cache lookup and its writes
SeenStores(task, stores) == stores

Without(tasks, i) ==
    [j \in 1..(Len(tasks) - 1) |-> IF j < i THEN tasks[j] ELSE tasks[j + 1]]

\* A request is accepted while others wait
Accept ==
    /\ Len(tTasks.inFlight) + Len(tTasks.handled) < MaxTasks
    /\ \E req \in TaskCreates \cup TaskUpdates \cup TaskCompletes :
           tTasks' = [tTasks EXCEPT !.inFlight = Append(@, Task(req))]
    /\ UNCHANGED <<tCalls, tRequest, tResult, tCatalogLog, tPaymentLog, tStaticLog,
                   tStripeKey, tSessions, tIdem, tPayments, tBefore>>
    /\ UNCHANGED <<filterVars, rankVars, crossVars, bundleVars, minorVars, duckVars>>

Handled(i, payment) ==
    tTasks' = [inFlight |-> Without(tTasks.inFlight, i),
               handled |-> Append(tTasks.handled,
                                  [request |-> tTasks.inFlight[i].request,
                                   arrived |-> tTasks.inFlight[i].arrived,
                                   cached |-> tTasks.inFlight[i].cached,
                                   payment |-> payment])]

\* The loop runs one waiting task's handler to its return
HandleCreate ==
    \E i \in 1..Len(tTasks.inFlight), payment \in CreateOutcomes :
        /\ tTasks.inFlight[i].request.tool = "checkout_create_session"
        /\ Returns(MaxTasks, tTasks.inFlight[i].request,
                   checkout_create_session(tTasks.inFlight[i].request,
                                           Env(<<>>, payment, "present"),
                                           SeenStores(tTasks.inFlight[i], Stores)))
        /\ Handled(i, payment)

HandleUpdate ==
    \E i \in 1..Len(tTasks.inFlight) :
        /\ tTasks.inFlight[i].request.tool = "checkout_update_session"
        /\ Returns(MaxTasks, tTasks.inFlight[i].request,
                   checkout_update_session(tTasks.inFlight[i].request,
                                           Env(<<>>, "succeeded", "present"),
                                           SeenStores(tTasks.inFlight[i], Stores)))
        /\ Handled(i, "succeeded")

HandleComplete ==
    \E i \in 1..Len(tTasks.inFlight), payment \in PaymentOutcomes :
        /\ tTasks.inFlight[i].request.tool = "checkout_complete_session"
        /\ Returns(MaxTasks, tTasks.inFlight[i].request,
                   checkout_complete_session(tTasks.inFlight[i].request,
                                             Env(<<>>, payment, "present"),
                                             SeenStores(tTasks.inFlight[i], Stores)))
        /\ Handled(i, payment)

TasksNext ==
    \/ Accept
    \/ HandleCreate
    \/ HandleUpdate
    \/ HandleComplete
(***************************************************************************)
(* Claims about checkout requests in flight together.                      *)
(***************************************************************************)
LastTask == tTasks.handled[tCalls]

PreviousTask == tTasks.handled[tCalls - 1]

\* The last two calls were in flight together: the later one had been
\* accepted before the earlier one was handled
InFlightTogether ==
    /\ tCalls >= 2
    /\ LastTask.arrived < tCalls - 1

\* The last two calls were checkout_create_session requests in flight
\* together that carry one idempotency key, not cached when either arrived,
\* and the earlier one has created its session
SameKeyCreates ==
    /\ InFlightTogether
    /\ LastTask.request.tool = "checkout_create_session"
    /\ PreviousTask.request.tool = "checkout_create_session"
    /\ LastTask.request.args.idempotency_key # <<>>
    /\ LastTask.request.args.idempotency_key = PreviousTask.request.args.idempotency_key
    /\ ~LastTask.cached
    /\ ~PreviousTask.cached
    /\ ~tBefore.result.isError

\* The handler of the last call, on the stores the call before it left
EndedOn(task, stores) ==
    IF task.request.tool = "checkout_create_session"
    THEN checkout_create_session(task.request, Env(<<>>, task.payment, "present"), stores)
    ELSE IF task.request.tool = "checkout_update_session"
    THEN checkout_update_session(task.request, Env(<<>>, task.payment, "present"), stores)
    ELSE checkout_complete_session(task.request, Env(<<>>, task.payment, "present"), stores)

RanAlone ==
    \E out \in {EndedOn(LastTask, [sessions |-> tBefore.sessions, idem |-> tBefore.idem,
                                   payments |-> tBefore.payments])} :
        /\ tResult = out.result
        /\ tSessions = out.sessions
        /\ tIdem = out.idem
        /\ tPayments = out.payments

C21_SessionWitness ==
    /\ InFlightTogether
    /\ PreviousTask.request.tool = "checkout_complete_session"
    /\ LastTask.request.tool = "checkout_update_session"
    /\ ~tBefore.result.isError
    /\ ~tResult.isError
    /\ PreviousTask.arrived = LastTask.arrived
(***************************************************************************)
(* The live catalog: get_motherduck_connection and                          *)
(* get_products_from_motherduck.  The connection is opened anew for each   *)
(* call; every attempt to connect, and the query, ends in one of the       *)
(* outcomes the database driver can produce.                               *)
(***************************************************************************)
\* retries: int = 5
DefaultRetries == 5

\* base_delay: float = 0.5, in milliseconds
BaseDelayMs == 500

\* motherduck_token in the environment: unset, set to the empty string, set
TokenStates == { None, Some(<<>> (* "" *)), Some(<<109, 100, 95, 116, 111, 107, 101, 110>> (* "md_token" *)) }

\* os.getenv("motherduck_token", "")
md_token == IF dToken = None THEN <<>> (* "" *) ELSE dToken[1]

\* The exceptions duckdb.connect, con.execute and the conversion of the rows
\* may raise
DriverErrors == { "IOException", "HTTPException", "ValueError" }

\* A delay that grows by the base delay with every attempt
BackoffDelay_linear(base_delay, attempt) == base_delay * (attempt + 1)

\* delay = base_delay * (2 ** attempt)
BackoffDelay(base_delay, attempt) == base_delay * (2 ^ attempt)

\* What get_products_from_motherduck ends with: the list it returns, or the
\* exception that leaves it
Returned(products) == [products |-> Some(products), escaped |-> None]

Leaves(exception) == [products |-> None, escaped |-> Some(exception)]

\* A handler for configuration errors only
Caught_value_errors_only(exception) ==
    IF exception = "ValueError" THEN Returned(<<>>) ELSE Leaves(exception)

\* except ValueError: return [] / except Exception: return []
Caught(exception) == Returned(<<>>)

\* The rows of prodotti_xeel_shop; one table has a row without a name
ShopTables ==
    { <<>>, << DbProducts[1] >>, << DbProducts[1], DbProducts[3], DbProducts[5] >>,
      << Product(<<110, 49>> (* "n1" *), NullName, Some(9), CatList(<< <<84, 86>> (* "TV" *) >>), CatNone, <<>>) >> }

\* The end of the with block: the filtered rows, or the handler's answer to
\* the exception of the filter
Filtered(out) == IF out.ok THEN Returned(out.v) ELSE Caught(out.err)

DuckCategories == { None, Some(<<>> (* "" *)), Some(<<116, 118>> (* "tv" *)), Some(<<103, 97, 100, 103, 101, 116, 115>> (* "gadgets" *)) }

DuckInit ==
    /\ dpc = "call"
    /\ dToken \in TokenStates
    /\ dCategory \in DuckCategories
    /\ dAttempt = 0 /\ dConnects = 0
    /\ dDelays = <<>> /\ dErrors = <<>> /\ dLastErr = None
    /\ dConn = "none" /\ dExc = None /\ dQuery = "none"
    /\ dProducts = None /\ dEscaped = None

DuckIdle ==
    /\ dpc = "off" /\ dToken = None /\ dCategory = None
    /\ dAttempt = 0 /\ dConnects = 0
    /\ dDelays = <<>> /\ dErrors = <<>> /\ dLastErr = None
    /\ dConn = "none" /\ dExc = None /\ dQuery = "none"
    /\ dProducts = None /\ dEscaped = None

DuckOthers == <<filterVars, rankVars, crossVars, bundleVars, minorVars, toolVars>>

\* if not md_token: raise ValueError(...)
TokenMissing ==
    /\ dpc = "call"
    /\ md_token = <<>>
    /\ dConn' = "raised"
    /\ dExc' = Some("ValueError")
    /\ dpc' = "raised"
    /\ UNCHANGED <<dToken, dCategory, dAttempt, dConnects, dDelays, dErrors, dLastErr,
                   dQuery, dProducts, dEscaped>>
    /\ UNCHANGED DuckOthers

\* the token is set: the probes are logged and the loop is entered
TokenPresent ==
    /\ dpc = "call"
    /\ md_token # <<>>
    /\ dpc' = "loop"
    /\ UNCHANGED <<dToken, dCategory, dAttempt, dConnects, dDelays, dErrors, dLastErr,
                   dConn, dExc, dQuery, dProducts, dEscaped>>
    /\ UNCHANGED DuckOthers

\* con = duckdb.connect(...); con.execute("SET search_path TO main;"); return con
ConnectSucceeds ==
    /\ dpc = "loop"
    /\ dAttempt < DefaultRetries
    /\ dConnects' = dConnects + 1
    /\ dConn' = "open"
    /\ dpc' = "connected"
    /\ UNCHANGED <<dToken, dCategory, dAttempt, dDelays, dErrors, dLastErr,
                   dExc, dQuery, dProducts, dEscaped>>
    /\ UNCHANGED DuckOthers

\* except Exception as exc: last_err = exc; the warning; time.sleep(delay)
ConnectFails ==
    /\ dpc = "loop"
    /\ dAttempt < DefaultRetries
    /\ \E exc \in DriverErrors :
        /\ dLastErr' = Some(exc)
        /\ dErrors' = Append(dErrors, exc)
    /\ dConnects' = dConnects + 1
    /\ dDelays' = Append(dDelays, BackoffDelay(BaseDelayMs, dAttempt))
    /\ dAttempt' = dAttempt + 1
    /\ UNCHANGED <<dpc, dToken, dCategory, dConn, dExc, dQuery, dProducts, dEscaped>>
    /\ UNCHANGED DuckOthers

\* the loop is over: raise last_err, or RuntimeError when there is none
RetriesExhausted ==
    /\ dpc = "loop"
    /\ dAttempt >= DefaultRetries
    /\ dConn' = "raised"
    /\ dExc' = (IF dLastErr # None THEN dLastErr ELSE Some("RuntimeError"))
    /\ dpc' = "raised"
    /\ UNCHANGED <<dToken, dCategory, dAttempt, dConnects, dDelays, dErrors, dLastErr,
                   dQuery, dProducts, dEscaped>>
    /\ UNCHANGED DuckOthers

\* The end of get_products_from_motherduck
DuckEnds(ended) ==
    /\ dProducts' = ended.products
    /\ dEscaped' = ended.escaped
    /\ dpc' = "done"
    /\ UNCHANGED <<dToken, dCategory, dAttempt, dConnects, dDelays, dErrors, dLastErr,
                   dConn, dExc>>
    /\ UNCHANGED DuckOthers

\* the exception of get_motherduck_connection reaches the handlers of
\* get_products_from_motherduck
ConnectionRaised ==
    /\ dpc = "raised"
    /\ UNCHANGED dQuery
    /\ DuckEnds(Caught(dExc[1]))

\* the query returns the rows; a category that is given filters them
QueryReturns ==
    /\ dpc = "connected"
    /\ dQuery' = "ok"
    /\ \E rows \in ShopTables :
        DuckEnds(IF dCategory # None /\ dCategory[1] # <<>>
                 THEN Filtered(filter_products_by_category(rows, dCategory))
                 ELSE Returned(rows))

\* the query, the conversion of the rows or the closing of the connection
\* raises
QueryFails ==
    /\ dpc = "connected"
    /\ dQuery' = "failed"
    /\ \E exc \in DriverErrors : DuckEnds(Caught(exc))

DuckNext ==
    \/ TokenMissing
    \/ TokenPresent
    \/ ConnectSucceeds
    \/ ConnectFails
    \/ RetriesExhausted
    \/ ConnectionRaised
    \/ QueryReturns
    \/ QueryFails

(***************************************************************************)
(* get_products_from_motherduck never raises                               *)
(***************************************************************************)
\* C11: get_products_from_motherduck never raises to its caller: when the
\* credential token is missing, when every connection attempt fails, or when
\* the query fails, it returns an empty list.
C11_ProductsNeverRaise ==
    /\ dEscaped = None
    /\ dpc = "done" =>
           /\ dProducts # None
           /\ (md_token = <<>> \/ dConn = "raised" \/ dQuery = "failed") =>
                  dProducts = Some(<<>>)

\* A call in which every attempt to connect failed, the last one with an
\* error that is no configuration error, and that returned the empty list.
C11_Witness ==
    /\ dpc = "done"
    /\ md_token # <<>>
    /\ dConnects = DefaultRetries
    /\ dConn = "raised"
    /\ dExc = Some("IOException")
    /\ dProducts = Some(<<>>)

(***************************************************************************)
(* get_motherduck_connection terminates                                    *)
(***************************************************************************)
\* The attempts made so far, as the claim counts them
ConnectionBounded ==
    /\ dConnects <= 5
    /\ Len(dDelays) = Len(dErrors)
    /\ \A k \in 1..Len(dDelays) : dDelays[k] = BaseDelayMs * (2 ^ (k - 1))
    /\ dConn = "open" => dConnects = Len(dErrors) + 1
    /\ dConn # "open" => dConnects = Len(dErrors)
    /\ (dConn = "raised" /\ md_token # <<>>) =>
           /\ dConnects = 5
           /\ dExc = Some(dErrors[5])
    /\ md_token = <<>> =>
           /\ dConnects = 0
           /\ dConn = "raised" => dExc = Some("ValueError")

\* C20: get_motherduck_connection terminates on every call: it makes at most
\* 5 attempts to connect, stops at the first that succeeds, waits
\* base_delay * 2^k after the k-th failed attempt (k from 0), raises the last
\* error after the 5th failure, and raises without any attempt when the
\* token is missing.
C20_ConnectionTerminates == []ConnectionBounded /\ <>(dConn # "none")

\* A call that connected at its third attempt, after waiting 500 and 1000 ms.
C20_Witness ==
    /\ dConn = "open"
    /\ dConnects = 3
    /\ dDelays = <<500, 1000>>

(***************************************************************************)
(* Specifications: one per component, the others idle.                     *)
(***************************************************************************)

vars == <<filterVars, rankVars, crossVars, bundleVars, minorVars, toolVars, duckVars>>

FilterStart == FilterInit /\ RankIdle /\ CrossIdle /\ BundleIdle /\ MinorIdle /\ ToolIdle /\ DuckIdle

SpecFilter == FilterStart /\ [][FilterNext]_vars

RankStart == RankInit /\ FilterIdle /\ CrossIdle /\ BundleIdle /\ MinorIdle /\ ToolIdle /\ DuckIdle

SpecRank == RankStart /\ [][RankNext]_vars

CrossStart == CrossInit /\ FilterIdle /\ RankIdle /\ BundleIdle /\ MinorIdle /\ ToolIdle /\ DuckIdle

SpecCross == CrossStart /\ [][CrossNext]_vars

BundleStart == BundleInit /\ FilterIdle /\ RankIdle /\ CrossIdle /\ MinorIdle /\ ToolIdle /\ DuckIdle

SpecBundle == BundleStart /\ [][BundleNext]_vars

MinorStart == MinorInit /\ FilterIdle /\ RankIdle /\ CrossIdle /\ BundleIdle /\ ToolIdle /\ DuckIdle

SpecMinor == MinorStart /\ [][MinorNext]_vars

ToolStart == ToolInit /\ FilterIdle /\ RankIdle /\ CrossIdle /\ BundleIdle /\ MinorIdle /\ DuckIdle

SpecTool == ToolStart /\ [][ToolNext]_vars

CheckoutStart ==
    ToolInit /\ FilterIdle /\ RankIdle /\ CrossIdle /\ BundleIdle /\ MinorIdle /\ DuckIdle

SpecCheckout == CheckoutStart /\ [][CheckoutNext]_vars

TasksStart ==
    ToolInit /\ FilterIdle /\ RankIdle /\ CrossIdle /\ BundleIdle /\ MinorIdle /\ DuckIdle

SpecTasks == TasksStart /\ [][TasksNext]_vars

DuckStart ==
    DuckInit /\ FilterIdle /\ RankIdle /\ CrossIdle /\ BundleIdle /\ MinorIdle /\ ToolIdle

\* The interpreter runs the call to its end: a step that can be taken is taken
SpecDuck == DuckStart /\ [][DuckNext]_vars /\ WF_vars(DuckNext)

====
